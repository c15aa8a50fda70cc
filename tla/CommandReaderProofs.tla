------------------------ MODULE CommandReaderProofs ------------------------
(***************************************************************************)
(* Theorems about CommandReader, for any text: the reader stays within the *)
(* text and within the arrays of its lists, and a command that is run is   *)
(* what is written in the line it was read from.                           *)
(***************************************************************************)
EXTENDS CommandReader, SequenceTheorems, WellFoundedInduction, TLAPS

(* A non-empty set of numbers has a least one. *)
LEMMA LeastNumber ==
  ASSUME NEW S \in SUBSET Nat, S # {}
  PROVE  \E m \in S : \A n \in S : m <= n
  <1> DEFINE R == OpToRel(<, Nat)
  <1>1. PICK m \in S : \A n \in S : <<n, m>> \notin R
    <2> HIDE DEF R
    <2>1. IsWellFoundedOn(R, Nat)
      BY NatLessThanWellFounded DEF R
    <2>2. QED
      BY <2>1, WFMin
  <1>2. ASSUME NEW n \in S
        PROVE  m <= n
    <2>1. n \in Nat /\ m \in Nat /\ ~(n < m)
      BY <1>1 DEF OpToRel
    <2>2. QED
      BY <2>1
  <1>3. QED
    BY <1>2

(* Min is the least. *)
LEMMA MinFacts ==
  ASSUME NEW S \in SUBSET Nat, S # {}
  PROVE  /\ Min(S) \in S
         /\ \A n \in S : Min(S) <= n
  BY LeastNumber DEF Min
-----------------------------------------------------------------------------
(* FlattenSeq, which a recursive function computes *)

Flattens(seqs, f) ==
  f = [i \in 1..Len(seqs) |-> IF i = 1 THEN seqs[i] ELSE f[i-1] \o seqs[i]]

(* What FlattenSeq is, said with the function it is computed by. *)
LEMMA FlattenIs ==
  ASSUME NEW seqs
  PROVE  FlattenSeq(seqs) =
           IF Len(seqs) = 0 THEN seqs ELSE (CHOOSE f : Flattens(seqs, f))[Len(seqs)]
  BY DEF FlattenSeq, Flattens

(* There is such a function, *)
LEMMA FlattenExists ==
  ASSUME NEW S, NEW seqs \in Seq(Seq(S))
  PROVE  \E f \in [1..Len(seqs) -> Seq(S)] : Flattens(seqs, f)
  <1> DEFINE N == Len(seqs)
             Upto(n, f) ==
               /\ f \in [1..n -> Seq(S)]
               /\ \A i \in 1..n : f[i] = IF i = 1 THEN seqs[i] ELSE f[i-1] \o seqs[i]
             Bad == {n \in 0..N : ~\E f : Upto(n, f)}
  <1>0. N \in Nat /\ \A i \in 1..N : seqs[i] \in Seq(S)
    BY LenProperties, ElementOfSeq
  <1>1. ASSUME Bad # {} PROVE FALSE
    <2>0. Bad \in SUBSET Nat
      BY <1>0
    <2>1. PICK n \in Bad : \A m \in Bad : n <= m
      <3> HIDE DEF Bad
      <3>1. QED
        BY <1>1, <2>0, LeastNumber
    <2>2. n \in 0..N /\ ~\E f : Upto(n, f)
      OBVIOUS
    <2>3. CASE n = 0
      <3>1. [i \in 1..0 |-> <<>>] \in [1..0 -> Seq(S)]
        BY EmptySeq
      <3>2. Upto(0, [i \in 1..0 |-> <<>>])
        BY <3>1
      <3>3. QED
        BY <2>2, <2>3, <3>2
    <2>4. CASE n # 0
      <3>1. n - 1 \in 0..N /\ n \in 1..N
        BY <1>0, <2>2, <2>4
      <3>2. n - 1 \notin Bad
        <4> HIDE DEF Bad
        <4>1. QED
          BY <1>0, <2>1, <3>1
      <3>3. PICK g : Upto(n - 1, g)
        BY <3>1, <3>2
      <3> DEFINE x == IF n = 1 THEN seqs[n] ELSE g[n-1] \o seqs[n]
                 f == [i \in 1..n |-> IF i = n THEN x ELSE g[i]]
      <3>4. x \in Seq(S)
        <4>1. CASE n = 1
          BY <1>0, <3>1, <4>1
        <4>2. CASE n # 1
          <5>1. n - 1 \in 1..(n - 1)
            BY <3>1, <4>2
          <5>2. g[n-1] \in Seq(S) /\ seqs[n] \in Seq(S)
            BY <1>0, <3>1, <3>3, <5>1
          <5>3. QED
            BY <4>2, <5>2, ConcatProperties
        <4>3. QED
          BY <4>1, <4>2
      <3>5. f \in [1..n -> Seq(S)]
        <4> HIDE DEF x
        <4>1. ASSUME NEW i \in 1..n, i # n PROVE g[i] \in Seq(S)
          <5>1. i \in 1..(n-1)
            BY <3>1, <4>1
          <5>2. QED
            BY <3>3, <5>1
        <4>2. QED
          BY <3>4, <4>1
      <3>6. ASSUME NEW i \in 1..n
            PROVE  f[i] = IF i = 1 THEN seqs[i] ELSE f[i-1] \o seqs[i]
        <4>1. i = 1 \/ (i - 1 \in 1..n /\ i - 1 # n)
          BY <3>1
        <4>2. i # 1 => f[i-1] = g[i-1]
          BY <4>1
        <4>3. CASE i = n
          BY <4>2, <4>3
        <4>4. CASE i # n
          <5>1. i \in 1..(n-1)
            BY <3>1, <4>4
          <5>2. g[i] = IF i = 1 THEN seqs[i] ELSE g[i-1] \o seqs[i]
            BY <3>3, <5>1
          <5>3. f[i] = g[i]
            BY <4>4
          <5>4. QED
            BY <4>2, <5>2, <5>3
        <4>5. QED
          BY <4>3, <4>4
      <3>7. Upto(n, f)
        BY <3>5, <3>6
      <3>8. QED
        BY <2>2, <3>7
    <2>5. QED
      BY <2>3, <2>4
  <1>2. N \notin Bad
    <2> HIDE DEF Bad
    <2>1. QED
      BY <1>1
  <1>3. PICK f : Upto(N, f)
    BY <1>0, <1>2
  <1>4. Flattens(seqs, f)
    BY <1>3 DEF Flattens
  <1>5. QED
    BY <1>3, <1>4

(* which goes on from place to place, *)
LEMMA FlattenRound ==
  ASSUME NEW t, NEW g, Flattens(t, g), NEW i \in 1..Len(t)
  PROVE  g[i] = IF i = 1 THEN t[i] ELSE g[i-1] \o t[i]
  BY Zenon DEF Flattens

(* The sequences of s are those t begins with. *)
Begins(s, t) ==
  /\ Len(s) \in Nat /\ Len(t) \in Nat /\ Len(s) <= Len(t)
  /\ \A i \in 1..Len(s) : s[i] = t[i]

(* What such functions have at a place depends only on the sequences up to there. *)
LEMMA FlattenAgree ==
  ASSUME NEW s, NEW t, NEW f, NEW g, Flattens(s, f), Flattens(t, g), Begins(s, t),
         NEW k \in 1..Len(s)
  PROVE  f[k] = g[k]
  <1>0. /\ Len(s) \in Nat /\ Len(t) \in Nat /\ Len(s) <= Len(t)
        /\ \A i \in 1..Len(s) : s[i] = t[i]
    BY DEF Begins
  <1> DEFINE Bad == {i \in 1..Len(s) : f[i] # g[i]}
  <1>1. ASSUME Bad # {} PROVE FALSE
    <2>0. Bad \in SUBSET Nat
      BY <1>0
    <2>1. PICK i \in Bad : \A m \in Bad : i <= m
      <3> HIDE DEF Bad
      <3>1. QED
        BY <1>1, <2>0, LeastNumber
    <2>2. i \in 1..Len(s) /\ i \in 1..Len(t) /\ f[i] # g[i]
      BY <1>0
    <2>3. f[i] = IF i = 1 THEN s[i] ELSE f[i-1] \o s[i]
      BY <2>2, Zenon DEF Flattens
    <2>4. g[i] = IF i = 1 THEN t[i] ELSE g[i-1] \o t[i]
      BY <2>2, Zenon DEF Flattens
    <2>5. i = 1 \/ f[i-1] = g[i-1]
      <3>1. i # 1 => i - 1 \in 1..Len(s) /\ ~(i <= i - 1)
        BY <1>0, <2>2
      <3>2. QED
        BY <2>1, <3>1
    <2>6. QED
      BY <1>0, <2>2, <2>3, <2>4, <2>5
  <1>2. QED
    BY <1>1

(* So FlattenSeq is the last value of any such function. *)
LEMMA FlattenLast ==
  ASSUME NEW S, NEW seqs \in Seq(Seq(S)), Len(seqs) # 0, NEW f, Flattens(seqs, f)
  PROVE  FlattenSeq(seqs) = f[Len(seqs)]
  <1>1. PICK g : g = CHOOSE h : Flattens(seqs, h)
    OBVIOUS
  <1>2. Flattens(seqs, g)
    BY <1>1
  <1>3. Len(seqs) \in Nat /\ Len(seqs) \in 1..Len(seqs)
    BY LenProperties
  <1>4. f[Len(seqs)] = g[Len(seqs)]
    <2>1. Begins(seqs, seqs)
      BY <1>3 DEF Begins
    <2>2. QED
      BY <1>2, <1>3, <2>1, FlattenAgree
  <1>5. QED
    BY <1>1, <1>4, FlattenIs

(* FlattenSeq strings sequences together. *)
LEMMA FlattenFacts ==
  ASSUME NEW S, NEW seqs \in Seq(Seq(S))
  PROVE  /\ FlattenSeq(<<>>) = <<>>
         /\ FlattenSeq(seqs) \in Seq(S)
         /\ \A x \in Seq(S) : FlattenSeq(Append(seqs, x)) = FlattenSeq(seqs) \o x
  <1>1. FlattenSeq(<<>>) = <<>>
    BY FlattenIs
  <1>2. Len(seqs) \in Nat /\ (Len(seqs) = 0 => seqs = <<>>)
    BY LenProperties, EmptySeq
  <1>3. PICK f : f \in [1..Len(seqs) -> Seq(S)] /\ Flattens(seqs, f)
    BY FlattenExists
  <1>4. Len(seqs) # 0 => FlattenSeq(seqs) = f[Len(seqs)]
    BY <1>3, FlattenLast
  <1>5. FlattenSeq(seqs) \in Seq(S)
    <2>1. CASE Len(seqs) = 0
      BY <1>1, <1>2, <2>1, EmptySeq
    <2>2. CASE Len(seqs) # 0
      <3>1. Len(seqs) \in 1..Len(seqs)
        BY <1>2, <2>2
      <3>2. QED
        BY <1>3, <1>4, <2>2, <3>1
    <2>3. QED
      BY <2>1, <2>2
  <1>6. ASSUME NEW x \in Seq(S)
        PROVE  FlattenSeq(Append(seqs, x)) = FlattenSeq(seqs) \o x
    <2>0. PICK t : t = Append(seqs, x)
      OBVIOUS
    <2> DEFINE n == Len(seqs)
    <2>1. /\ t \in Seq(Seq(S)) /\ Len(t) = n + 1 /\ t[n+1] = x
          /\ \A i \in 1..n : t[i] = seqs[i]
      BY <2>0, AppendProperties
    <2>2. PICK g : g \in [1..Len(t) -> Seq(S)] /\ Flattens(t, g)
      BY <2>1, FlattenExists
    <2>3. n \in Nat /\ n + 1 # 0 /\ n + 1 \in 1..Len(t) /\ n + 1 - 1 = n
      BY <1>2, <2>1
    <2>4. FlattenSeq(t) = g[n+1]
      BY <2>1, <2>2, <2>3, FlattenLast
    <2>5. g[n+1] = IF n + 1 = 1 THEN t[n+1] ELSE g[n+1-1] \o t[n+1]
      BY <2>2, <2>3, FlattenRound
    <2>6. CASE n = 0
      BY <1>1, <1>2, <2>1, <2>4, <2>5, <2>6, <2>0, ConcatEmptySeq
    <2>7. CASE n # 0
      <3>1. \A i \in 1..n : f[i] = g[i]
        <4>1. Begins(seqs, t)
          <5>1. Len(seqs) \in Nat /\ Len(t) \in Nat /\ Len(seqs) <= Len(t)
            BY <2>1, <2>3
          <5>2. QED
            BY <2>1, <5>1 DEF Begins
        <4>2. Flattens(seqs, f) /\ Flattens(t, g)
          BY <1>3, <2>2
        <4>3. ASSUME NEW i \in 1..Len(seqs) PROVE f[i] = g[i]
          BY <4>1, <4>2, FlattenAgree
        <4>4. QED
          BY <4>3
      <3>2. g[n] = f[n]
        BY <2>3, <2>7, <3>1
      <3>3. FlattenSeq(t) = g[n] \o x
        BY <2>1, <2>3, <2>4, <2>5, <2>7
      <3>4. QED
        BY <1>4, <2>0, <2>7, <3>2, <3>3
    <2>8. QED
      BY <2>6, <2>7
  <1>7. QED
    BY <1>1, <1>5, <1>6

(* Max is the greatest. *)
LEMMA MaxFacts ==
  ASSUME NEW N \in Nat, NEW S \in SUBSET (0..N), S # {}
  PROVE  /\ Max(S) \in S
         /\ \A n \in S : n <= Max(S)
  <1> DEFINE T == {N - n : n \in S}
  <1>1. T \in SUBSET Nat /\ T # {}
    <2>1. \A n \in S : N - n \in Nat
      OBVIOUS
    <2>2. QED
      BY <2>1
  <1>2. PICK m \in T : \A n \in T : m <= n
    <2> HIDE DEF T
    <2>1. QED
      BY <1>1, LeastNumber
  <1>3. PICK x \in S : m = N - x
    OBVIOUS
  <1>4. \A n \in S : x >= n
    BY <1>2, <1>3
  <1>5. \E y \in S : \A n \in S : y >= n
    BY <1>4
  <1>6. Max(S) \in S /\ \A n \in S : Max(S) >= n
    BY <1>5, Zenon DEF Max
  <1>7. QED
    BY <1>6
-----------------------------------------------------------------------------
(* The operators that read *)

(* The characters of a text, and those commands are written with.         *)
Letters == {"A", "B", "C", "D", "E", "H", "I", "K", "L", "N", "O", "P", "R", "S", "T",
            "U", "W", "Y"} \cup {Blank}

Sym == Characters \cup {Blank, Comma, "[", "]", "(", ")"} \cup Closers \cup Letters

(* The four characters that end a key or value are four. *)
LEMMA Marks ==
  /\ Blank # Comma /\ Blank # ")" /\ Blank # "]"
  /\ Comma # ")" /\ Comma # "]"
  <1>1. Blank # Comma
    BY Zenon DEF Blank, Comma
  <1>2. Blank # ")"
    BY Zenon DEF Blank
  <1>3. Blank # "]"
    BY Zenon DEF Blank
  <1>4. Comma # ")"
    BY Zenon DEF Comma
  <1>5. Comma # "]"
    BY Zenon DEF Comma
  <1>6. QED
    BY <1>1, <1>2, <1>3, <1>4, <1>5

(* Where the text ends, nothing is read any more. *)
LEMMA PastFacts ==
  ASSUME text \in Seq(Sym), NEW p \in Nat \ {0}
  PROVE  /\ Len(text) \in Nat
         /\ Past(p) \in 1..(Len(text) + 1) /\ Past(p) <= p
         /\ p <= Len(text) + 1 => Past(p) = p
  BY LenProperties DEF Past

(* A place at which something is read is in the text. *)
LEMMA IsFacts ==
  ASSUME text \in Seq(Sym), NEW p \in Nat \ {0}, NEW C, Is(p, C)
  PROVE  p \in 1..Len(text) /\ text[p] \in C
  BY LenProperties DEF Is

(* cleanup() leaves the offset after a line end or at the end of the text. *)
LEMMA CleanupFacts ==
  ASSUME text \in Seq(Sym), NEW p \in Nat \ {0}
  PROVE  /\ Cleanup(p) \in 1..(Len(text) + 1)
         /\ p <= Len(text) + 1 => Cleanup(p) >= p
         /\ Cleanup(p) > Len(text) \/ text[Cleanup(p) - 1] = NL
  <1> DEFINE ends == {i \in p..Len(text) : text[i] = NL}
  <1>0. Len(text) \in Nat
    BY LenProperties
  <1>1. Cleanup(p) = IF ends = {} THEN Len(text) + 1 ELSE Min(ends) + 1
    BY DEF Cleanup
  <1>2. CASE ends = {}
    BY <1>0, <1>1, <1>2
  <1>3. CASE ends # {}
    <2>1. ends \in SUBSET Nat
      BY <1>0
    <2>2. Min(ends) \in ends
      <3> HIDE DEF ends
      <3>1. QED
        BY <1>3, <2>1, MinFacts
    <2>3. PICK m : m = Min(ends)
      OBVIOUS
    <2>4. m \in p..Len(text) /\ text[m] = NL /\ Cleanup(p) = m + 1
      BY <1>1, <1>3, <2>2, <2>3
    <2>5. m + 1 - 1 = m /\ m + 1 \in 1..(Len(text) + 1) /\ m + 1 >= p
      BY <1>0, <2>4
    <2>6. QED
      BY <2>4, <2>5
  <1>4. QED
    BY <1>2, <1>3

(* read_string() takes the characters up to one that ends a key or value.  *)
LEMMA ReadStringFacts ==
  ASSUME text \in Seq(Sym), NEW p \in 1..(Len(text) + 1)
  PROVE  /\ ReadString(p).value \in {-1, 0, 1, 2}
         /\ ReadString(p).str \in Seq(Sym)
         /\ ReadString(p).pos \in p..(Len(text) + 1)
         /\ ReadString(p).value # -1 =>
              /\ ReadString(p).pos > p
              /\ ReadString(p).str = SubSeq(text, p, ReadString(p).pos - 2)
              /\ text[ReadString(p).pos - 1] =
                   IF ReadString(p).value = 0 THEN Comma
                   ELSE IF ReadString(p).value = 1 THEN ")" ELSE "]"
  <1> DEFINE stops == {i \in p..Past(p + MaxString - 1) : Is(i, {Blank, Comma, ")", "]"})}
  <1>0. Len(text) \in Nat /\ MaxString \in Nat \ {0} /\ p \in Nat \ {0}
    BY LenProperties, ReaderAssumption
  <1>1. PICK m : m = Min(stops)
    OBVIOUS
  <1>2. ReadString(p) =
          IF stops = {} \/ Is(m, {Blank})
          THEN [value |-> -1, str |-> <<>>,
                pos |-> IF stops = {} THEN Past(p + MaxString) ELSE m + 1]
          ELSE [value |-> IF Is(m, {Comma}) THEN 0 ELSE IF Is(m, {")"}) THEN 1 ELSE 2,
                str |-> SubSeq(text, p, m - 1), pos |-> m + 1]
    BY <1>1 DEF ReadString, Stops
  <1>3. Past(p + MaxString) \in p..(Len(text) + 1) /\ Past(p + MaxString - 1) \in Nat
    BY <1>0 DEF Past
  <1>4. CASE stops = {}
    <2>1. ReadString(p) = [value |-> -1, str |-> <<>>, pos |-> Past(p + MaxString)]
      BY <1>2, <1>4
    <2>2. QED
      BY <1>3, <2>1, EmptySeq
  <1>5. CASE stops # {}
    <2>1. stops \in SUBSET Nat
      BY <1>0, <1>3
    <2>2. m \in stops
      <3> HIDE DEF stops
      <3>1. QED
        BY <1>1, <1>5, <2>1, MinFacts
    <2>3. m \in p..Past(p + MaxString - 1) /\ Is(m, {Blank, Comma, ")", "]"})
      BY <2>2
    <2> HIDE DEF stops
    <2>4. m \in Nat \ {0}
      BY <1>0, <1>3, <2>3
    <2>5. m \in p..Len(text) /\ m \in 1..Len(text)
      BY <1>0, <2>3, <2>4 DEF Is
    <2>6. /\ m + 1 \in p..(Len(text) + 1) /\ m + 1 > p
          /\ m + 1 - 1 = m /\ m + 1 - 2 = m - 1
      BY <1>0, <2>5
    <2>7. SubSeq(text, p, m - 1) \in Seq(Sym)
      <3>1. \A i \in p..(m - 1) : i \in 1..Len(text)
        BY <1>0, <2>5
      <3>2. \A i \in p..(m - 1) : text[i] \in Sym
        BY <3>1, ElementOfSeq
      <3>3. p \in Int /\ m - 1 \in Int
        BY <1>0, <2>5
      <3>4. QED
        BY <3>2, <3>3, SubSeqProperties
    <2>8. \A C : Is(m, C) <=> text[m] \in C
      BY <1>0, <2>5 DEF Is
    <2>9. text[m] \in {Blank, Comma, ")", "]"}
      BY <2>3, <2>8
    <2>10. CASE text[m] = Blank
      <3>1. Is(m, {Blank})
        BY <2>8, <2>10
      <3>2. ReadString(p) = [value |-> -1, str |-> <<>>, pos |-> m + 1]
        BY <1>2, <1>5, <3>1
      <3>3. QED
        BY <2>6, <3>2, EmptySeq
    <2>11. CASE text[m] # Blank
      <3>1. ~Is(m, {Blank})
        BY <2>8, <2>11
      <3> DEFINE v == IF Is(m, {Comma}) THEN 0 ELSE IF Is(m, {")"}) THEN 1 ELSE 2
      <3>2. ReadString(p) = [value |-> v, str |-> SubSeq(text, p, m - 1), pos |-> m + 1]
        BY <1>2, <1>5, <3>1
      <3>3. /\ Is(m, {Comma}) <=> text[m] = Comma
            /\ Is(m, {")"}) <=> text[m] = ")"
        BY <2>8
      <3>4. text[m] = Comma => v = 0
        BY <3>3
      <3>5. text[m] = ")" => v = 1
        BY <3>3, Marks
      <3>6. text[m] = "]" => v = 2
        BY <3>3, Marks
      <3>7. PICK w : w = v
        OBVIOUS
      <3>8. w \in {0, 1, 2} /\ w # -1
        <4> HIDE DEF v
        <4>1. QED
          BY <2>9, <2>11, <3>4, <3>5, <3>6, <3>7
      <3>9. text[m] = IF w = 0 THEN Comma ELSE IF w = 1 THEN ")" ELSE "]"
        <4> HIDE DEF v
        <4>1. QED
          BY <2>9, <2>11, <3>4, <3>5, <3>6, <3>7, Marks
      <3>10. PICK R : R = ReadString(p)
        OBVIOUS
      <3>11. PICK str : str = SubSeq(text, p, m - 1)
        OBVIOUS
      <3>12. PICK q : q = m + 1
        OBVIOUS
      <3>13. R = [value |-> w, str |-> str, pos |-> q]
        BY <3>2, <3>7, <3>10, <3>11, <3>12
      <3> HIDE DEF v
      <3>14. R.value = w /\ R.str = str /\ R.pos = q
        BY <3>13
      <3>15. /\ R.value \in {-1, 0, 1, 2} /\ R.str \in Seq(Sym)
             /\ R.pos \in p..(Len(text) + 1) /\ R.pos > p
        BY <2>6, <2>7, <3>8, <3>11, <3>12, <3>14
      <3>16. R.str = SubSeq(text, p, R.pos - 2) /\ R.pos - 1 = m
        <4>1. q - 1 = m /\ q - 2 = m - 1
          BY <2>4, <3>12
        <4>2. QED
          BY <3>11, <3>14, <4>1
      <3>17. text[R.pos - 1] =
               IF R.value = 0 THEN Comma ELSE IF R.value = 1 THEN ")" ELSE "]"
        BY <3>9, <3>14, <3>16
      <3>18. QED
        BY <3>10, <3>15, <3>16, <3>17
    <2>12. QED
      BY <2>10, <2>11
  <1>6. QED
    BY <1>4, <1>5

(* read_uint() stays within the text as well. *)
LEMMA ReadUintFacts ==
  ASSUME text \in Seq(Sym), NEW p \in 1..(Len(text) + 1)
  PROVE  /\ ReadUint(p).last \in p..(Len(text) + 1)
         /\ ReadUint(p).pos = Past(ReadUint(p).last + 1)
         /\ ReadUint(p).pos \in p..(Len(text) + 1)
  <1> DEFINE stops == {i \in p..(Len(text) + 1) : ~Is(i, ToSet(Digits))}
  <1>0. Len(text) \in Nat
    BY LenProperties
  <1>1. stops \in SUBSET Nat /\ Len(text) + 1 \in stops
    BY <1>0 DEF Is
  <1>2. Min(stops) \in stops
    <2> HIDE DEF stops
    <2>1. QED
      BY <1>1, MinFacts
  <1>3. PICK m : m = Min(stops)
    OBVIOUS
  <1>4. ReadUint(p).last = m /\ ReadUint(p).pos = Past(m + 1)
    BY <1>3 DEF ReadUint
  <1>5. m \in p..(Len(text) + 1)
    BY <1>2, <1>3
  <1>6. Past(m + 1) \in p..(Len(text) + 1)
    BY <1>0, <1>5 DEF Past
  <1>7. QED
    BY <1>4, <1>5, <1>6
-----------------------------------------------------------------------------
(* The invariant *)

(* Types, and how far a list has come; TypeOK without the line history.    *)
ListInv ==
  /\ who \in Readers
  /\ text \in Seq(Sym)
  /\ pos \in 1..(Len(text) + 1) /\ from \in 1..(Len(text) + 1)
  /\ pc \in Labels
  /\ cmd \in Commands /\ run.cmd \in Commands
  /\ keys \in Seq(Seq(Sym)) /\ vals \in Seq(Seq(Sym))
  /\ Len(keys) <= Limit /\ Len(vals) <= Len(keys)
  /\ pc = "open" => keys = <<>> /\ vals = <<>>
  /\ pc = "pairs" => cmd = "WRITE" /\ Len(keys) < Limit /\ Len(vals) = Len(keys)
  /\ pc = "keys" => cmd # "WRITE" /\ Len(keys) < Limit
  /\ pc = "close" /\ cmd = "WRITE" => Len(vals) = Len(keys)
  /\ pc = "number" => who = "job" \/ cmd = "DELAY"
  /\ StartsAtLine

(* The pairs of a WRITE, and the keys of the other lists, as written.      *)
Pairs(ks, vs) ==
  [i \in DOMAIN ks |-> <<"(">> \o ks[i] \o <<Comma>> \o vs[i] \o <<")">>]
Names(ks) ==
  [i \in DOMAIN ks |-> IF i = 1 THEN ks[i] ELSE <<Comma>> \o ks[i]]
Items(c, ks, vs) == IF c = "WRITE" THEN Pairs(ks, vs) ELSE Names(ks)

(* What stands between the keyword and the place the reader is at.         *)
SoFar(label, c, ks, vs) ==
  LET list == <<"[">> \o FlattenSeq(Items(c, ks, vs))
  IN  IF label = "open" THEN <<>>
      ELSE IF label = "pairs" THEN list \o <<"(">>
      ELSE IF label = "close" THEN list \o <<"]">>
      ELSE IF ks = <<>> THEN <<"[">>
      ELSE list \o <<Comma>>

AllWords == JobWords \cup ConsoleWords

Written ==
  \E w \in AllWords :
    /\ w.cmd = run.cmd
    /\ SubSeq(text, from, pos - 2) = w.text \o Listed(run)
    /\ text[pos - 1] \in Closers

(* Up to p the command that is being read is w and h. *)
At(w, p, h) == from <= p /\ SubSeq(text, from, p - 1) = w \o h

ReadInv ==
  /\ pc \in {"open", "pairs", "keys", "close"} =>
       \E w \in AllWords :
         w.cmd = cmd /\ At(w.text, pos, SoFar(pc, cmd, keys, vals))
  /\ run.keys # <<>> => pc \in {"next", "end"} /\ Written
-----------------------------------------------------------------------------
(* Sequences, and the keywords *)

(* The part of a text a word is the beginning of. *)
LEMMA PrefixRead ==
  ASSUME NEW S, NEW T, NEW t \in Seq(S), NEW p \in 1..(Len(t) + 1), NEW w \in Seq(T),
         IsPrefix(w, SubSeq(t, p, Len(t)))
  PROVE  /\ p + Len(w) <= Len(t) + 1
         /\ SubSeq(t, p, p + Len(w) - 1) = w
  <1>0. /\ \A i \in 1..Len(t) : t[i] \in S
        /\ Len(t) \in Nat /\ Len(w) \in Nat
    BY ElementOfSeq, LenProperties
  <1>1. PICK r : r = SubSeq(t, p, Len(t))
    OBVIOUS
  <1>2. /\ r \in Seq(S) /\ Len(r) = Len(t) - p + 1
        /\ \A i \in 1..(Len(t) - p + 1) : r[i] = t[p + i - 1]
    BY <1>0, <1>1, SubSeqProperties
  <1>3. Len(w) <= Len(r) /\ SubSeq(w, 1, Len(w)) = SubSeq(r, 1, Len(w))
    BY <1>1 DEF IsPrefix
  <1>4. p + Len(w) <= Len(t) + 1
    BY <1>0, <1>2, <1>3
  <1>5. PICK u : u = SubSeq(t, p, p + Len(w) - 1)
    OBVIOUS
  <1>6. /\ u \in Seq(S) /\ Len(u) = Len(w)
        /\ \A i \in 1..Len(w) : u[i] = t[p + i - 1]
    BY <1>0, <1>4, <1>5, SubSeqProperties
  <1>7. \A i \in 1..Len(w) : SubSeq(w, 1, Len(w))[i] = w[i]
    BY <1>0, ElementOfSeq, SubSeqProperties
  <1>8. \A i \in 1..Len(w) : SubSeq(r, 1, Len(w))[i] = r[i]
    BY <1>0, <1>2, <1>3, ElementOfSeq, SubSeqProperties
  <1>9. \A i \in 1..Len(w) : u[i] = w[i]
    BY <1>0, <1>2, <1>3, <1>6, <1>7, <1>8
  <1>10. u = w
    BY <1>0, <1>6, <1>9, SeqEqual
  <1>11. QED
    BY <1>4, <1>5, <1>10

(* The keywords are sequences of one to twelve characters. *)
LEMMA WordFacts ==
  ASSUME NEW w \in AllWords
  PROVE  w.text \in Seq(Letters) /\ Len(w.text) \in 1..12
  <1> DEFINE Good(t) == t \in Seq(Letters) /\ Len(t) \in 1..12
  <1>1. \A c \in {"A", "B", "C", "D", "E", "H", "I", "K", "L", "N", "O", "P", "R", "S",
                   "T", "U", "W", "Y", Blank} : c \in Letters
    BY DEF Letters
  <1>2. /\ Good(<<"W", "R", "I", "T", "E", Blank>>)
        /\ Good(<<"W", "A", "I", "T", Blank>>)
        /\ Good(<<"R", "E", "A", "D", Blank>>)
        /\ Good(<<"D", "E", "L", "E", "T", "E", Blank>>)
    BY <1>1
  <1>3. /\ Good(<<"S", "H", "O", "W">>)
        /\ Good(<<"B", "A", "C", "K", "U", "P">>)
        /\ Good(<<"H", "E", "L", "P">>)
    BY <1>1
  <1>4. /\ Good(<<"S", "U", "B", "S", "C", "R", "I", "B", "E", Blank>>)
        /\ Good(<<"U", "N", "S", "U", "B", "S", "C", "R", "I", "B", "E", Blank>>)
    BY <1>1
  <1>5. /\ Good(<<"D", "E", "L", "A", "Y", Blank>>)
        /\ Good(<<"D", "I", "S", "C", "O", "N", "N", "E", "C", "T">>)
    BY <1>1
  <1> HIDE DEF Good
  <1>6. ASSUME w \in JobWords PROVE Good(w.text)
    BY <1>2, <1>3, <1>6 DEF JobWords, Word
  <1>7. ASSUME w \in ConsoleWords PROVE Good(w.text)
    BY <1>4, <1>5, <1>7 DEF ConsoleWords, Word
  <1>8. Good(w.text)
    BY <1>6, <1>7 DEF AllWords
  <1>9. QED
    BY <1>8 DEF Good
-----------------------------------------------------------------------------
(* Types and lists *)

(* The lines of a text, strung together, are a text. *)
LEMMA TextFacts ==
  ASSUME who \in Readers, lines \in Texts(who)
  PROVE  /\ lines \in Seq(Lines[who])
         /\ FlattenSeq([i \in DOMAIN lines |-> lines[i].text]) \in Seq(Sym)
  <1>1. PICK n \in 1..MaxLines : lines \in [1..n -> Lines[who]]
    BY DEF Texts
  <1>2. n \in Nat /\ DOMAIN lines = 1..n
    BY <1>1, ReaderAssumption
  <1>3. ASSUME NEW i \in 1..n PROVE lines[i].text \in Seq(Sym)
    <2>1. lines[i] \in Lines[who]
      BY <1>1
    <2>2. lines[i].text \in Seq(Characters)
      BY <2>1, ReaderAssumption
    <2>3. QED
      BY <2>2, SeqMonotonic DEF Sym
  <1>4. PICK t : t = [i \in 1..n |-> lines[i].text]
    OBVIOUS
  <1>5. t \in Seq(Seq(Sym))
    BY <1>2, <1>3, <1>4
  <1>6. FlattenSeq(t) \in Seq(Sym)
    BY <1>5, FlattenFacts
  <1>7. lines \in Seq(Lines[who])
    BY <1>1, <1>2
  <1>8. QED
    BY <1>2, <1>4, <1>6, <1>7

(* At the start nothing is read. *)
LEMMA InitList ==
  ASSUME Init
  PROVE  ListInv
  <1>1. who \in Readers /\ text \in Seq(Sym)
    BY TextFacts DEF Init
  <1>2. Len(text) \in Nat /\ MaxPairs \in Nat \ {0}
    BY <1>1, LenProperties, ReaderAssumption
  <1>3. Len(<<>>) = 0 /\ <<>> \in Seq(Seq(Sym))
    BY EmptySeq
  <1>4. Limit \in Nat
    BY <1>2 DEF Limit
  <1>5. StartsAtLine
    BY DEF Init, StartsAtLine
  <1>6. "NONE" \in Commands /\ Nothing.cmd = "NONE"
    BY DEF Commands, Nothing
  <1>7. pos = 1 /\ from = 1 /\ 1 \in 1..(Len(text) + 1)
    BY <1>2 DEF Init
  <1>8. QED
    BY <1>1, <1>3, <1>4, <1>5, <1>6, <1>7 DEF Init, ListInv, Labels

(* What the bounds in the invariant are. *)
LEMMA ListFacts ==
  ASSUME ListInv
  PROVE  /\ Len(text) \in Nat /\ pos \in Nat \ {0} /\ from \in Nat \ {0}
         /\ Limit \in Nat \ {0} /\ Limit <= MaxPairs
         /\ Len(keys) \in Nat /\ Len(vals) \in Nat
  <1>1. Len(text) \in Nat /\ Len(keys) \in Nat /\ Len(vals) \in Nat
    BY LenProperties DEF ListInv
  <1>2. Limit \in Nat \ {0} /\ Limit <= MaxPairs
    BY ReaderAssumption DEF Limit
  <1>3. QED
    BY <1>1, <1>2 DEF ListInv

(* The words get_next tries, and the one it takes. *)
LEMMA MatchFacts ==
  ASSUME ListInv
  PROVE  /\ \A w \in Matching :
              /\ w \in AllWords /\ w \in Words
              /\ Len(w.text) \in 1..12 /\ pos + Len(w.text) \in 2..(Len(text) + 1)
              /\ SubSeq(text, pos, pos + Len(w.text) - 1) = w.text
         /\ Words # {} => Asked \in 1..12
  <1>1. Words \subseteq AllWords
    BY DEF Words, WordsOf, AllWords
  <1>2. ASSUME NEW w \in Matching
        PROVE  /\ w \in AllWords /\ w \in Words
               /\ Len(w.text) \in 1..12 /\ pos + Len(w.text) \in 2..(Len(text) + 1)
               /\ SubSeq(text, pos, pos + Len(w.text) - 1) = w.text
    <2>1. w \in Words /\ IsPrefix(w.text, SubSeq(text, pos, Len(text)))
      BY DEF Matching
    <2>2. w \in AllWords
      BY <1>1, <2>1
    <2>3. PICK x, n : x = w.text /\ n = Len(x)
      OBVIOUS
    <2>4. x \in Seq(Letters) /\ n \in 1..12
      BY <2>2, <2>3, WordFacts
    <2>5. text \in Seq(Sym) /\ pos \in 1..(Len(text) + 1) /\ IsPrefix(x, SubSeq(text, pos, Len(text)))
      BY <2>1, <2>3 DEF ListInv
    <2>6. pos + Len(x) <= Len(text) + 1 /\ SubSeq(text, pos, pos + Len(x) - 1) = x
      BY <2>4, <2>5, PrefixRead
    <2>7. pos + n \in 2..(Len(text) + 1)
      <3>1. PICK L, q \in Nat : L = Len(text) /\ q = pos
        BY ListFacts
      <3>2. q \in 1..(L + 1) /\ n \in 1..12 /\ q + n <= L + 1
        BY <2>3, <2>4, <2>5, <2>6, <3>1
      <3>3. q + n \in 2..(L + 1)
        BY <3>2
      <3>4. QED
        BY <3>1, <3>3
    <2>8. QED
      BY <2>1, <2>2, <2>3, <2>4, <2>6, <2>7
  <1>3. ASSUME Words # {} PROVE Asked \in 1..12
    <2> DEFINE lens == {Len(w.text) : w \in Words}
    <2>1. lens \in SUBSET (0..12) /\ lens # {} /\ lens \subseteq 1..12
      <3>1. ASSUME NEW w \in Words PROVE Len(w.text) \in 1..12
        <4>1. w \in AllWords
          BY <1>1
        <4>2. QED
          BY <4>1, WordFacts
      <3>2. ASSUME NEW x \in lens PROVE x \in 1..12
        <4>1. PICK w \in Words : x = Len(w.text)
          OBVIOUS
        <4>2. QED
          BY <3>1, <4>1
      <3>3. lens # {}
        <4>1. PICK w \in Words : TRUE
          BY <1>3
        <4>2. Len(w.text) \in lens
          OBVIOUS
        <4>3. QED
          BY <4>2
      <3>4. QED
        <4> HIDE DEF lens
        <4>1. QED
          BY <3>2, <3>3
    <2>2. Max(lens) \in lens
      <3> HIDE DEF lens
      <3>1. QED
        BY <2>1, MaxFacts
    <2>3. Asked = Max(lens)
      BY DEF Asked
    <2>4. QED
      <3> HIDE DEF lens
      <3>1. Asked \in lens
        BY <2>2, <2>3, Zenon
      <3>2. QED
        BY <2>1, <3>1
  <1>4. QED
    BY <1>2, <1>3

(* A step that ends the reading of a command keeps the invariant. *)
LEMMA BackToNext ==
  ASSUME ListInv, who' = who, text' = text, pc' \in {"next", "end"},
         pos' \in 1..(Len(text) + 1), from' \in 1..(Len(text) + 1),
         cmd' \in Commands, run'.cmd \in Commands,
         keys' \in Seq(Seq(Sym)), vals' \in Seq(Seq(Sym)),
         Len(keys') <= Limit, Len(vals') <= Len(keys'), StartsAtLine'
  PROVE  ListInv'
  <1>1. Limit' = Limit
    BY DEF Limit
  <1>2. who' \in Readers /\ text' \in Seq(Sym)
    BY DEF ListInv
  <1>3. pc' \in Labels /\ pc' \notin {"open", "pairs", "keys", "close", "number"}
    BY DEF Labels
  <1>4. QED
    BY <1>1, <1>2, <1>3 DEF ListInv

(* So does a parse_ function that gives up. *)
LEMMA GivesUp ==
  ASSUME ListInv, NEW p \in Nat \ {0}, GiveUp(p),
         keys' \in Seq(Seq(Sym)), vals' \in Seq(Seq(Sym)),
         Len(keys') <= Limit, Len(vals') <= Len(keys')
  PROVE  ListInv'
  <1>0. text \in Seq(Sym)
    BY DEF ListInv
  <1>1. /\ pc' = "next" /\ pos' = Cleanup(p) /\ run' = Invalid
        /\ who' = who /\ text' = text /\ cmd' = cmd /\ from' = from
    BY DEF GiveUp, Run
  <1>2. Cleanup(p) \in 1..(Len(text) + 1)
    BY <1>0, CleanupFacts
  <1>3. Cleanup(p) > Len(text) \/ text[Cleanup(p) - 1] \in Closers
    BY <1>0, CleanupFacts DEF Closers
  <1>4. StartsAtLine'
    <2>1. pos' > Len(text') \/ text'[pos' - 1] \in Closers
      BY <1>1, <1>3
    <2>2. QED
      BY <2>1 DEF StartsAtLine
  <1>5. run'.cmd \in Commands
    BY <1>1 DEF Invalid, Nothing, Commands
  <1>6. cmd' \in Commands /\ from' \in 1..(Len(text) + 1)
    BY <1>1 DEF ListInv
  <1>7. QED
    BY <1>1, <1>2, <1>4, <1>5, <1>6, BackToNext

(* Nothing and Invalid, and what is left of a list. *)
LEMMA RunFacts ==
  /\ Nothing.keys = <<>> /\ Nothing.cmd \in Commands
  /\ Invalid.keys = <<>> /\ Invalid.cmd \in Commands
  /\ {"EMPTY", "INVALID"} \subseteq Commands
  /\ \A c \in Commands : LET r == [Nothing EXCEPT !.cmd = c]
                         IN  r.keys = <<>> /\ r.cmd \in Commands
  /\ \A w \in AllWords : w.cmd \in Commands
  <1>1. Nothing.keys = <<>> /\ Nothing.cmd = "NONE"
    BY DEF Nothing
  <1>2. Invalid.keys = <<>> /\ Invalid.cmd = "INVALID"
    BY DEF Invalid, Nothing
  <1>3. {"NONE", "EMPTY", "INVALID"} \subseteq Commands
    BY DEF Commands
  <1>4. ASSUME NEW c \in Commands
        PROVE  LET r == [Nothing EXCEPT !.cmd = c]
               IN  r.keys = <<>> /\ r.cmd \in Commands
    BY DEF Nothing
  <1>5. \A w \in AllWords : w.cmd \in Commands
    <2> HIDE DEF JobWords, ConsoleWords
    <2>1. QED
      BY DEF Commands, AllWords
  <1>6. QED
    BY <1>1, <1>2, <1>3, <1>4, <1>5

(* get_next() *)
LEMMA ListGetNext ==
  ASSUME ListInv, GetNext
  PROVE  ListInv'
  <1>0. /\ text \in Seq(Sym) /\ pos \in Nat \ {0} /\ pos \in 1..Len(text)
        /\ Len(text) \in Nat /\ Limit \in Nat
    BY ListFacts DEF ListInv, GetNext
  <1>1. /\ who' = who /\ text' = text /\ from' = pos
        /\ keys' = <<>> /\ vals' = <<>>
    BY DEF GetNext
  <1>2. /\ keys' \in Seq(Seq(Sym)) /\ vals' \in Seq(Seq(Sym))
        /\ Len(keys') = 0 /\ Len(vals') = 0 /\ from' \in 1..(Len(text) + 1)
    BY <1>0, <1>1, EmptySeq
  <1>3. ASSUME NEW p \in Nat \ {0}, pos' = Cleanup(p), pc' = "next",
               cmd' \in {"EMPTY", "INVALID"}, run' \in {Nothing, Invalid}
        PROVE  ListInv'
    <2>1. /\ Cleanup(p) \in 1..(Len(text) + 1)
          /\ Cleanup(p) > Len(text) \/ text[Cleanup(p) - 1] \in Closers
      BY <1>0, CleanupFacts DEF Closers
    <2>2. StartsAtLine'
      BY <1>1, <1>3, <2>1 DEF StartsAtLine
    <2>3. cmd' \in Commands /\ run'.cmd \in Commands
      BY <1>3, RunFacts
    <2>4. QED
      BY <1>0, <1>1, <1>2, <1>3, <2>1, <2>2, <2>3, BackToNext
  <1>4. CASE /\ Is(pos, {"#", NL})
             /\ pos' = Cleanup(pos)
             /\ cmd' = "EMPTY" /\ run' = Nothing
             /\ pc' = "next"
    BY <1>0, <1>3, <1>4
  <1>5. CASE /\ ~Is(pos, {"#", NL})
             /\ Matching = {}
             /\ pos' = Cleanup(IF Words = {} THEN pos + 1 ELSE Past(pos + Asked))
             /\ cmd' = "INVALID" /\ run' = Invalid
             /\ pc' = "next"
    <2>1. PICK p : p = IF Words = {} THEN pos + 1 ELSE Past(pos + Asked)
      OBVIOUS
    <2>2. p \in Nat \ {0}
      <3>1. CASE Words = {}
        BY <1>0, <2>1, <3>1
      <3>2. CASE Words # {}
        <4>1. Asked \in 1..12
          BY <3>2, MatchFacts
        <4>2. pos + Asked \in Nat \ {0}
          BY <1>0, <4>1
        <4>3. Past(pos + Asked) \in 1..(Len(text) + 1)
          BY <1>0, <4>2, PastFacts
        <4>4. QED
          BY <1>0, <2>1, <3>2, <4>3
      <3>3. QED
        BY <3>1, <3>2
    <2>3. QED
      BY <1>3, <1>5, <2>1, <2>2
  <1>6. ASSUME NEW w \in Matching, ~w.bare, pos' = pos + Len(w.text),
               cmd' = w.cmd, run' = Nothing,
               pc' = IF w.cmd \in {"WAIT", "DELAY"} THEN "number" ELSE "open"
        PROVE  ListInv'
    <2>1. w \in AllWords /\ w \in Words /\ pos' \in 1..(Len(text) + 1)
      BY <1>0, <1>6, MatchFacts
    <2>2. cmd' \in Commands /\ run'.cmd \in Commands
      BY <1>6, <2>1, RunFacts
    <2>3. pc' = "number" => who' = "job" \/ cmd' = "DELAY"
      <3>1. ASSUME who # "job" PROVE w.cmd # "WAIT"
        <4>1. w \in ConsoleWords
          BY <2>1, <3>1 DEF Words, WordsOf
        <4>2. QED
          BY <4>1 DEF ConsoleWords, Word
      <3>2. QED
        BY <1>1, <1>6, <3>1
    <2>4. pc' \in {"number", "open"}
      BY <1>6
    <2>5. StartsAtLine'
      BY <2>4 DEF StartsAtLine
    <2>6. Limit' = Limit
      BY <1>1 DEF Limit
    <2>7. who' \in Readers /\ text' \in Seq(Sym)
      BY <1>1 DEF ListInv
    <2>8. pc' \in Labels /\ pc' \notin {"pairs", "keys", "close"}
      BY <2>4 DEF Labels
    <2>9. pos' \in 1..(Len(text') + 1) /\ from' \in 1..(Len(text') + 1)
      BY <1>1, <1>2, <2>1
    <2>10. QED
      BY <1>0, <1>1, <1>2, <2>2, <2>3, <2>5, <2>6, <2>7, <2>8, <2>9 DEF ListInv
  <1>7. ASSUME NEW w \in Matching, NEW p, p = pos + Len(w.text),
               p > Len(text) \/ Is(p, {NL}), pos' = Past(p + 1),
               cmd' = w.cmd, run' = [Nothing EXCEPT !.cmd = w.cmd],
               pc' = IF w.cmd = "DISCONNECT" THEN "end" ELSE "next"
        PROVE  ListInv'
    <2>1. w \in AllWords /\ p \in 2..(Len(text) + 1) /\ p \in Nat \ {0}
      <3>1. w \in Matching /\ p = pos + Len(w.text)
        BY <1>7
      <3>2. QED
        BY <1>0, <3>1, MatchFacts
    <2>2. cmd' \in Commands /\ run'.cmd \in Commands
      BY <1>7, <2>1, RunFacts
    <2>3. Past(p + 1) \in 1..(Len(text) + 1)
      BY <1>0, <2>1, PastFacts
    <2>4. Past(p + 1) > Len(text) \/ text[Past(p + 1) - 1] \in Closers
      <3>1. CASE p > Len(text)
        BY <1>0, <2>1, <3>1 DEF Past
      <3>2. CASE Is(p, {NL})
        <4>1. p \in 1..Len(text) /\ text[p] = NL
          BY <1>0, <2>1, <3>2, IsFacts
        <4>2. Past(p + 1) = p + 1 /\ p + 1 - 1 = p
          BY <1>0, <2>1, <4>1 DEF Past
        <4>3. QED
          BY <4>1, <4>2 DEF Closers
      <3>3. QED
        BY <1>7, <3>1, <3>2
    <2>5. StartsAtLine'
      BY <1>1, <1>7, <2>4 DEF StartsAtLine
    <2>6. pc' \in {"next", "end"}
      BY <1>7
    <2>7. QED
      BY <1>0, <1>1, <1>2, <1>7, <2>2, <2>3, <2>5, <2>6, BackToNext
  <1>8. ASSUME NEW w \in Matching, pos' = Cleanup(pos + Len(w.text) + 1),
               cmd' = "INVALID", run' = Invalid, pc' = "next"
        PROVE  ListInv'
    <2>1. PICK p : p = pos + Len(w.text) + 1
      OBVIOUS
    <2>2. p \in Nat \ {0}
      BY <1>0, <2>1, MatchFacts
    <2>3. QED
      BY <1>3, <1>8, <2>1, <2>2
  <1>9. QED
    BY <1>4, <1>5, <1>6, <1>7, <1>8, Zenon DEF GetNext

(* The other steps: a list begins, *)
LEMMA ListOpen ==
  ASSUME ListInv, Open
  PROVE  ListInv'
  <1>0. /\ text \in Seq(Sym) /\ pos \in Nat \ {0} /\ pos \in 1..(Len(text) + 1)
        /\ Len(text) \in Nat /\ Limit \in Nat \ {0}
        /\ keys \in Seq(Seq(Sym)) /\ vals \in Seq(Seq(Sym))
        /\ keys = <<>> /\ vals = <<>> /\ Len(keys) = 0 /\ Len(vals) = 0
    BY ListFacts, EmptySeq DEF ListInv, Open
  <1>1. keys' = keys /\ vals' = vals
    BY DEF Open
  <1>2. ASSUME NEW p \in Nat \ {0}, GiveUp(Past(p)) PROVE ListInv'
    <2>1. Past(p) \in Nat \ {0}
      BY <1>0, PastFacts
    <2>2. QED
      BY <1>0, <1>1, <1>2, <2>1, GivesUp
  <1>3. ASSUME NEW label \in {"keys", "pairs"}, NEW p \in 1..(Len(text) + 1),
               Parsing(label, p), label = "pairs" <=> cmd = "WRITE"
        PROVE  ListInv'
    <2>1. /\ pc' = label /\ pos' = p /\ who' = who /\ text' = text
          /\ cmd' = cmd /\ from' = from /\ run' = run
      BY <1>3 DEF Parsing
    <2>2. Limit' = Limit /\ StartsAtLine'
      BY <2>1 DEF Limit, StartsAtLine
    <2>3. QED
      BY <1>0, <1>1, <1>3, <2>1, <2>2 DEF ListInv, Labels
  <1>4. CASE ~Is(pos, {"["})
    BY <1>0, <1>2, <1>4 DEF Open
  <1>5. CASE Is(pos, {"["}) /\ cmd # "WRITE"
    <2>1. Parsing("keys", pos + 1)
      BY <1>5 DEF Open
    <2>2. pos + 1 \in 1..(Len(text) + 1)
      BY <1>0, <1>5, IsFacts
    <2>3. QED
      BY <1>3, <1>5, <2>1, <2>2
  <1>6. CASE Is(pos, {"["}) /\ cmd = "WRITE" /\ ~Is(pos + 1, {"("})
    BY <1>0, <1>2, <1>6 DEF Open
  <1>7. CASE Is(pos, {"["}) /\ cmd = "WRITE" /\ Is(pos + 1, {"("})
    <2>1. Parsing("pairs", pos + 2)
      BY <1>7 DEF Open
    <2>2. pos + 2 \in 1..(Len(text) + 1)
      <3>1. pos + 1 \in Nat \ {0}
        BY <1>0
      <3>2. pos + 1 \in 1..Len(text)
        BY <1>0, <1>7, <3>1, IsFacts
      <3>3. QED
        BY <1>0, <3>2
    <2>3. QED
      BY <1>3, <1>7, <2>1, <2>2
  <1>8. QED
    BY <1>4, <1>5, <1>6, <1>7

(* a pair is read, *)
LEMMA ListParsePair ==
  ASSUME ListInv, ParsePair
  PROVE  ListInv'
  <1>0. /\ text \in Seq(Sym) /\ pos \in 1..(Len(text) + 1)
        /\ Len(text) \in Nat /\ Limit \in Nat \ {0}
        /\ keys \in Seq(Seq(Sym)) /\ vals \in Seq(Seq(Sym))
        /\ Len(keys) \in Nat /\ Len(keys) < Limit /\ Len(vals) = Len(keys)
        /\ cmd = "WRITE"
    BY ListFacts DEF ListInv, ParsePair
  <1>1. PICK key : key = ReadString(pos)
    OBVIOUS
  <1>2. key.str \in Seq(Sym) /\ key.pos \in 1..(Len(text) + 1)
    <2>1. key.str \in Seq(Sym) /\ key.pos \in pos..(Len(text) + 1)
      BY <1>0, <1>1, ReadStringFacts
    <2>2. QED
      BY <1>0, <2>1
  <1>3. PICK val : val = ReadString(key.pos)
    OBVIOUS
  <1>4. val.str \in Seq(Sym) /\ val.pos \in 1..(Len(text) + 1)
    <2>1. PICK p : p = key.pos
      OBVIOUS
    <2>2. p \in 1..(Len(text) + 1)
      BY <1>2, <2>1
    <2>3. val.str \in Seq(Sym) /\ val.pos \in p..(Len(text) + 1)
      BY <1>0, <1>3, <2>1, <2>2, ReadStringFacts
    <2>4. QED
      BY <1>0, <2>2, <2>3
  <1>5. PICK kp, vp : kp = key.pos /\ vp = val.pos
    OBVIOUS
  <1>6. kp \in Nat \ {0} /\ vp \in Nat \ {0} /\ kp \in 1..(Len(text) + 1) /\ vp \in 1..(Len(text) + 1)
    BY <1>0, <1>2, <1>4, <1>5
  <1>7. ASSUME NEW p \in Nat \ {0}, GiveUp(Cleanup(p)), keys' = keys, vals' = vals
        PROVE  ListInv'
    <2>1. Cleanup(p) \in Nat \ {0}
      BY <1>0, CleanupFacts
    <2>2. QED
      BY <1>0, <1>7, <2>1, GivesUp
  <1>8. CASE key.value # 0
    <2>1. GiveUp(Cleanup(kp)) /\ keys' = keys /\ vals' = vals
      BY <1>1, <1>5, <1>8 DEF ParsePair
    <2>2. QED
      BY <1>6, <1>7, <2>1
  <1>9. CASE key.value = 0 /\ val.value # 1
    <2>1. GiveUp(Cleanup(vp)) /\ keys' = keys /\ vals' = vals
      BY <1>1, <1>3, <1>5, <1>9 DEF ParsePair
    <2>2. QED
      BY <1>6, <1>7, <2>1
  <1>10. CASE key.value = 0 /\ val.value = 1
    <2>1. /\ keys' = Append(keys, key.str)
          /\ vals' = Append(vals, val.str)
          /\ IF ~Is(vp, {"(", "]"}) \/ Full(Len(keys) + 1)
             THEN GiveUp(Past(vp + 1))
             ELSE Parsing(IF Is(vp, {"]"}) THEN "close" ELSE "pairs", vp + 1)
      BY <1>1, <1>3, <1>5, <1>10 DEF ParsePair
    <2>2. /\ keys' \in Seq(Seq(Sym)) /\ vals' \in Seq(Seq(Sym))
          /\ Len(keys') = Len(keys) + 1 /\ Len(vals') = Len(keys) + 1
          /\ Len(keys) + 1 <= Limit
      <3>1. Len(Append(keys, key.str)) = Len(keys) + 1 /\ Append(keys, key.str) \in Seq(Seq(Sym))
        BY <1>0, <1>2, AppendProperties
      <3>2. Len(Append(vals, val.str)) = Len(vals) + 1 /\ Append(vals, val.str) \in Seq(Seq(Sym))
        BY <1>0, <1>4, AppendProperties
      <3>3. Len(keys) + 1 <= Limit
        BY <1>0
      <3>4. QED
        BY <1>0, <2>1, <3>1, <3>2, <3>3
    <2>3. CASE ~Is(vp, {"(", "]"}) \/ Full(Len(keys) + 1)
      <3>1. GiveUp(Past(vp + 1))
        BY <2>1, <2>3
      <3>2. Past(vp + 1) \in Nat \ {0}
        <4>1. vp + 1 \in Nat \ {0}
          BY <1>6
        <4>2. QED
          BY <1>0, <4>1, PastFacts
      <3>3. Len(keys') <= Limit /\ Len(vals') <= Len(keys')
        BY <1>0, <2>2
      <3>4. QED
        BY <2>2, <3>1, <3>2, <3>3, GivesUp
    <2>4. CASE Is(vp, {"(", "]"}) /\ ~Full(Len(keys) + 1)
      <3>1. PICK label \in {"close", "pairs"} : Parsing(label, vp + 1)
        BY <2>1, <2>4
      <3>2. /\ pc' = label /\ pos' = vp + 1 /\ who' = who /\ text' = text
            /\ cmd' = cmd /\ from' = from /\ run' = run
        BY <3>1 DEF Parsing
      <3>3. vp + 1 \in 1..(Len(text) + 1)
        <4>1. vp \in 1..Len(text)
          BY <1>0, <1>6, <2>4, IsFacts
        <4>2. QED
          BY <1>0, <4>1
      <3>4. Limit' = Limit /\ StartsAtLine'
        BY <3>1, <3>2 DEF Limit, StartsAtLine
      <3>5. Len(keys) + 1 # Limit
        BY <2>4 DEF Full, Limit
      <3>6. Len(keys') < Limit /\ Len(vals') = Len(keys') /\ Len(vals') <= Len(keys')
            /\ Len(keys') <= Limit
        BY <1>0, <2>2, <3>5
      <3>7. pc' \in Labels /\ pc' \notin {"open", "keys", "number"}
        BY <3>1, <3>2 DEF Labels
      <3>8. QED
        BY <1>0, <2>2, <3>2, <3>3, <3>4, <3>6, <3>7 DEF ListInv
    <2>5. QED
      BY <2>3, <2>4
  <1>11. QED
    BY <1>8, <1>9, <1>10

(* a key is read, *)
LEMMA ListParseKey ==
  ASSUME ListInv, ParseKey
  PROVE  ListInv'
  <1>0. /\ text \in Seq(Sym) /\ pos \in 1..(Len(text) + 1)
        /\ Len(text) \in Nat /\ Limit \in Nat \ {0}
        /\ keys \in Seq(Seq(Sym)) /\ vals \in Seq(Seq(Sym))
        /\ Len(keys) \in Nat /\ Len(vals) \in Nat
        /\ Len(keys) < Limit /\ Len(vals) <= Len(keys)
        /\ cmd # "WRITE"
    BY ListFacts DEF ListInv, ParseKey
  <1>1. PICK key : key = ReadString(pos)
    OBVIOUS
  <1>2. PICK kp : kp = key.pos
    OBVIOUS
  <1>3. key.str \in Seq(Sym) /\ kp \in 1..(Len(text) + 1) /\ kp \in Nat \ {0}
    <2>1. key.str \in Seq(Sym) /\ kp \in pos..(Len(text) + 1)
      BY <1>0, <1>1, <1>2, ReadStringFacts
    <2>2. QED
      BY <1>0, <2>1
  <1>4. vals' = vals
    BY DEF ParseKey
  <1>5. CASE key.value \notin {0, 2}
    <2>1. GiveUp(kp) /\ keys' = keys
      BY <1>1, <1>2, <1>5 DEF ParseKey
    <2>2. QED
      BY <1>0, <1>3, <1>4, <2>1, GivesUp
  <1>6. CASE key.value \in {0, 2}
    <2>1. /\ keys' = Append(keys, key.str)
          /\ IF Full(Len(keys) + 1) /\ (who = "job" \/ key.value # 2) THEN GiveUp(kp)
             ELSE Parsing(IF key.value = 2 THEN "close" ELSE "keys", kp)
      BY <1>1, <1>2, <1>6 DEF ParseKey
    <2>2. keys' \in Seq(Seq(Sym)) /\ Len(keys') = Len(keys) + 1
      BY <1>0, <1>3, <2>1, AppendProperties
    <2>3. Len(keys') <= Limit /\ Len(vals') <= Len(keys')
      BY <1>0, <1>4, <2>2
    <2>4. CASE Full(Len(keys) + 1) /\ (who = "job" \/ key.value # 2)
      BY <1>0, <1>3, <1>4, <2>1, <2>2, <2>3, <2>4, GivesUp
    <2>5. CASE ~(Full(Len(keys) + 1) /\ (who = "job" \/ key.value # 2))
      <3>1. PICK label : label = IF key.value = 2 THEN "close" ELSE "keys"
        OBVIOUS
      <3>2. /\ pc' = label /\ pos' = kp /\ who' = who /\ text' = text
            /\ cmd' = cmd /\ from' = from /\ run' = run
        BY <2>1, <2>5, <3>1 DEF Parsing
      <3>3. Limit' = Limit /\ StartsAtLine'
        BY <3>1, <3>2 DEF Limit, StartsAtLine
      <3>4. pc' = "keys" => Len(keys') < Limit
        <4>1. ASSUME label = "keys" PROVE Len(keys) + 1 # Limit
          BY <2>5, <3>1, <4>1 DEF Full, Limit
        <4>2. QED
          BY <1>0, <2>2, <3>2, <4>1
      <3>5. pc' \in Labels /\ pc' \notin {"open", "pairs", "number"}
        BY <3>1, <3>2 DEF Labels
      <3>6. QED
        BY <1>0, <1>3, <1>4, <2>2, <2>3, <3>2, <3>3, <3>4, <3>5 DEF ListInv
    <2>6. QED
      BY <2>4, <2>5
  <1>7. QED
    BY <1>5, <1>6

(* a list ends, *)
LEMMA ListClose ==
  ASSUME ListInv, Close
  PROVE  ListInv'
  <1>0. /\ text \in Seq(Sym) /\ pos \in 1..(Len(text) + 1) /\ pos \in Nat \ {0}
        /\ Len(text) \in Nat /\ Len(keys) <= Limit /\ Len(vals) <= Len(keys)
        /\ keys \in Seq(Seq(Sym)) /\ vals \in Seq(Seq(Sym))
    BY ListFacts DEF ListInv
  <1>1. keys' = keys /\ vals' = vals
    BY DEF Close
  <1>2. CASE ~Is(pos, Closers)
    <2>1. GiveUp(Past(pos + 1))
      BY <1>2 DEF Close
    <2>2. pos + 1 \in Nat \ {0}
      BY <1>0
    <2>3. Past(pos + 1) \in Nat \ {0}
      BY <1>0, <2>2, PastFacts
    <2>4. QED
      BY <1>0, <1>1, <2>1, <2>3, GivesUp
  <1>3. CASE Is(pos, Closers)
    <2>1. PICK r : r = [cmd |-> cmd, keys |-> keys, vals |-> vals]
      OBVIOUS
    <2>2. Run(pos + 1, r)
      BY <1>3, <2>1 DEF Close
    <2>3. /\ pc' = "next" /\ pos' = pos + 1 /\ run' = r
          /\ who' = who /\ text' = text /\ cmd' = cmd /\ from' = from
      BY <2>2 DEF Run
    <2>4. pos \in 1..Len(text) /\ text[pos] \in Closers
      BY <1>0, <1>3, IsFacts
    <2>5. pos' \in 1..(Len(text) + 1) /\ pos' - 1 = pos
      BY <1>0, <2>3, <2>4
    <2>6. StartsAtLine'
      BY <2>3, <2>4, <2>5 DEF StartsAtLine
    <2>7. run'.cmd = cmd
      BY <2>1, <2>3
    <2>8. cmd' \in Commands /\ run'.cmd \in Commands /\ from' \in 1..(Len(text) + 1)
      BY <2>3, <2>7 DEF ListInv
    <2>9. QED
      BY <1>0, <1>1, <2>3, <2>5, <2>6, <2>8, BackToNext
  <1>4. QED
    BY <1>2, <1>3

(* a number is read, *)
LEMMA ListParseNumber ==
  ASSUME ListInv, ParseNumber
  PROVE  ListInv'
  <1>0. /\ text \in Seq(Sym) /\ pos \in 1..(Len(text) + 1)
        /\ Len(text) \in Nat /\ Len(keys) <= Limit /\ Len(vals) <= Len(keys)
        /\ keys \in Seq(Seq(Sym)) /\ vals \in Seq(Seq(Sym))
        /\ who = "job" \/ cmd = "DELAY"
        /\ who \in Readers
    BY ListFacts DEF ListInv, ParseNumber
  <1>1. PICK n : n = ReadUint(pos)
    OBVIOUS
  <1>2. PICK last, q : last = n.last /\ q = n.pos
    OBVIOUS
  <1>3. /\ last \in pos..(Len(text) + 1) /\ q = Past(last + 1)
        /\ q \in pos..(Len(text) + 1)
    BY <1>0, <1>1, <1>2, ReadUintFacts
  <1>4. /\ last \in Nat \ {0} /\ q \in Nat \ {0} /\ q \in 1..(Len(text) + 1)
        /\ last \in 1..(Len(text) + 1)
    BY <1>0, <1>3
  <1>5. keys' = keys /\ vals' = vals
    BY DEF ParseNumber
  <1>6. CASE GiveUp(q)
    BY <1>0, <1>4, <1>5, <1>6, GivesUp
  <1>7. ASSUME NEW p \in 1..(Len(text) + 1), Run(p, [Nothing EXCEPT !.cmd = cmd]),
               \/ p > Len(text) \/ text[p - 1] \in Closers
               \/ who = "console"
        PROVE  ListInv'
    <2>1. /\ pc' = "next" /\ pos' = p /\ run' = [Nothing EXCEPT !.cmd = cmd]
          /\ who' = who /\ text' = text /\ cmd' = cmd /\ from' = from
      BY <1>7 DEF Run
    <2>2. cmd' \in Commands /\ from' \in 1..(Len(text) + 1)
      BY <2>1 DEF ListInv
    <2>3. run'.cmd \in Commands
      BY <2>1, <2>2, RunFacts
    <2>4. StartsAtLine'
      <3>1. who = "console" => cmd = "DELAY"
        BY <1>0
      <3>2. QED
        BY <1>7, <2>1, <3>1 DEF StartsAtLine
    <2>5. QED
      BY <1>0, <1>5, <1>7, <2>1, <2>2, <2>3, <2>4, BackToNext
  <1>8. CASE /\ Run(q, [Nothing EXCEPT !.cmd = cmd])
             /\ \/ who = "console"
                \/ last > Len(text) \/ Is(last, Closers)
    <2>1. q > Len(text) \/ text[q - 1] \in Closers \/ who = "console"
      <3>1. CASE who = "console"
        BY <3>1
      <3>2. CASE last > Len(text)
        BY <1>0, <1>3, <1>4, <3>2 DEF Past
      <3>3. CASE Is(last, Closers)
        <4>1. last \in 1..Len(text) /\ text[last] \in Closers
          BY <1>0, <1>4, <3>3, IsFacts
        <4>2. q = last + 1 /\ last + 1 - 1 = last
          BY <1>0, <1>3, <4>1 DEF Past
        <4>3. QED
          BY <4>1, <4>2
      <3>4. QED
        BY <1>8, <3>1, <3>2, <3>3
    <2>2. QED
      BY <1>4, <1>7, <1>8, <2>1
  <1>9. CASE Run(Cleanup(q), [Nothing EXCEPT !.cmd = cmd])
    <2>1. /\ Cleanup(q) \in 1..(Len(text) + 1)
          /\ Cleanup(q) > Len(text) \/ text[Cleanup(q) - 1] \in Closers
      BY <1>0, <1>4, CleanupFacts DEF Closers
    <2>2. QED
      BY <1>7, <1>9, <2>1
  <1>10. \/ GiveUp(q)
         \/ /\ Run(q, [Nothing EXCEPT !.cmd = cmd])
            /\ who = "console" \/ last > Len(text) \/ Is(last, Closers)
         \/ Run(Cleanup(q), [Nothing EXCEPT !.cmd = cmd])
    BY <1>1, <1>2, Zenon DEF ParseNumber
  <1>11. QED
    BY <1>6, <1>8, <1>9, <1>10

(* and the text is at its end. *)
LEMMA ListEnd ==
  ASSUME ListInv, EndOfCommands
  PROVE  ListInv'
  <1>1. /\ pc' = "end" /\ who' = who /\ text' = text /\ pos' = pos /\ cmd' = cmd
        /\ keys' = keys /\ vals' = vals /\ from' = from /\ run' = run
    BY DEF EndOfCommands
  <1>2. StartsAtLine'
    BY <1>1 DEF StartsAtLine
  <1>3. QED
    BY <1>1, <1>2, BackToNext DEF ListInv

(* So no step breaks it. *)
LEMMA ListKept ==
  ASSUME ListInv, [Next]_vars
  PROVE  ListInv'
  <1>1. ASSUME UNCHANGED vars PROVE ListInv'
    BY <1>1 DEF vars, ListInv, Limit, StartsAtLine
  <1>2. QED
    BY <1>1, ListGetNext, ListEnd, ListOpen, ListParsePair, ListParseKey, ListClose,
       ListParseNumber DEF Next

(* The text stays as it is. *)
LEMMA SameText ==
  ASSUME [Next]_vars
  PROVE  who' = who /\ lines' = lines /\ text' = text
  <1> DEFINE Same == who' = who /\ lines' = lines /\ text' = text
  <1>1. \A p : GiveUp(p) => Same
    BY DEF GiveUp, Run
  <1>2. \A p, r : Run(p, r) => Same
    BY DEF Run
  <1>3. \A label, p : Parsing(label, p) => Same
    BY DEF Parsing
  <1>4. UNCHANGED vars => Same
    BY DEF vars
  <1>5. GetNext \/ EndOfCommands => Same
    BY DEF GetNext, EndOfCommands
  <1> HIDE DEF Same
  <1>6. Open \/ ParsePair \/ ParseKey => Same
    BY <1>1, <1>3, Zenon DEF Open, ParsePair, ParseKey
  <1>7. Close \/ ParseNumber => Same
    BY <1>1, <1>2, Zenon DEF Close, ParseNumber
  <1>8. Same
    BY <1>4, <1>5, <1>6, <1>7 DEF Next
  <1>9. QED
    BY <1>8 DEF Same

(* A string read_string() returns fits its array with the 0 behind it; what *)
(* it stores goes one place further at most.                                *)
LEMMA StringShort ==
  ASSUME text \in Seq(Sym), NEW p \in 1..(Len(text) + 1)
  PROVE  /\ StoredBy(p) \in 0..(MaxString + 1)
         /\ ReadString(p).value # -1 =>
              StoredBy(p) <= MaxString /\ Len(ReadString(p).str) < MaxString
  <1>0. Len(text) \in Nat /\ MaxString \in Nat \ {0} /\ p \in Nat \ {0}
    BY LenProperties, ReaderAssumption
  <1>1. PICK S, m, R : S = Stops(p) /\ m = Min(S) /\ R = ReadString(p)
    OBVIOUS
  <1>2. S = {} => R.value = -1
    BY <1>1 DEF ReadString
  <1>3. StoredBy(p) = IF S # {} THEN m - p + (IF Is(m, {Blank}) THEN 0 ELSE 1)
                      ELSE IF p + MaxString - 1 <= Len(text) THEN MaxString + 1
                      ELSE Len(text) + 1 - p
    BY <1>1 DEF StoredBy
  <1>4. CASE S = {}
    BY <1>0, <1>1, <1>2, <1>3, <1>4
  <1>5. CASE S # {}
    <2>1. \A i \in S : i \in p..(p + MaxString - 1)
      <3>1. Past(p + MaxString - 1) <= p + MaxString - 1 /\ Past(p + MaxString - 1) \in Nat
        BY <1>0 DEF Past
      <3>2. QED
        BY <1>0, <1>1, <3>1 DEF Stops
    <2>2. S \in SUBSET Nat
      BY <1>0, <2>1
    <2>3. m \in S
      BY <1>1, <1>5, <2>2, MinFacts
    <2>4. m \in p..(p + MaxString - 1)
      BY <2>1, <2>3
    <2>5. StoredBy(p) \in 0..MaxString
      BY <1>0, <1>3, <1>5, <2>4
    <2>6. ASSUME R.value # -1 PROVE Len(R.str) < MaxString
      <3>1. R.str = SubSeq(text, p, R.pos - 2) /\ R.pos \in p..(Len(text) + 1) /\ R.pos > p
        BY <1>1, <2>6, ReadStringFacts
      <3>2. R.pos = m + 1
        <4>1. R = IF S = {} \/ Is(m, {Blank})
                  THEN [value |-> -1, str |-> <<>>,
                        pos |-> IF S = {} THEN Past(p + MaxString) ELSE m + 1]
                  ELSE [value |-> IF Is(m, {Comma}) THEN 0 ELSE IF Is(m, {")"}) THEN 1 ELSE 2,
                        str |-> SubSeq(text, p, m - 1), pos |-> m + 1]
          BY <1>1 DEF ReadString
        <4>2. QED
          BY <1>5, <4>1
      <3>3. \A i \in p..(m - 1) : text[i] \in Sym
        <4>1. \A i \in p..(m - 1) : i \in 1..Len(text)
          BY <1>0, <2>4, <3>1, <3>2
        <4>2. QED
          BY <4>1, ElementOfSeq
      <3>4. p \in Int /\ m - 1 \in Int /\ m + 1 - 2 = m - 1
        BY <1>0, <2>4
      <3>5. PICK u : u = SubSeq(text, p, m - 1)
        OBVIOUS
      <3>6. Len(u) = IF p <= m - 1 THEN (m - 1) - p + 1 ELSE 0
        BY <3>3, <3>4, <3>5, SubSeqProperties
      <3>7. R.str = u
        <4>1. PICK h : h = R.pos - 2
          OBVIOUS
        <4>2. h = m - 1
          <5>1. PICK r : r = R.pos
            OBVIOUS
          <5>2. r = m + 1
            BY <3>2, <5>1
          <5>3. h = r - 2
            BY <4>1, <5>1
          <5>4. m \in Int
            BY <1>0, <2>4
          <5>5. QED
            BY <5>2, <5>3, <5>4
        <4>3. R.str = SubSeq(text, p, h)
          BY <3>1, <4>1
        <4>4. QED
          BY <3>5, <4>2, <4>3
      <3>8. QED
        BY <1>0, <2>4, <3>6, <3>7
    <2>7. QED
      BY <1>0, <1>1, <2>5, <2>6
  <1>6. QED
    BY <1>4, <1>5

(* Entries that fit, and what read_string() has stored.                    *)
Fit(strings) == \A i \in DOMAIN strings : Len(strings[i]) < MaxString

StoreInv ==
  /\ Fit(keys) /\ Fit(vals)
  /\ \A n \in stored :
       /\ n \in 0..(MaxString + 1)
       /\ n <= MaxString \/ (pc \in {"next", "end"} /\ run = Invalid)

LEMMA FitsMore ==
  ASSUME NEW K \in Seq(Seq(Sym)), Fit(K), NEW s \in Seq(Sym), Len(s) < MaxString
  PROVE  Fit(Append(K, s))
  <1>1. /\ Append(K, s) \in Seq(Seq(Sym)) /\ Len(Append(K, s)) = Len(K) + 1
        /\ \A i \in 1..Len(K) : Append(K, s)[i] = K[i]
        /\ Append(K, s)[Len(K) + 1] = s
    BY AppendProperties
  <1>2. Len(K) \in Nat /\ DOMAIN K = 1..Len(K)
        /\ DOMAIN Append(K, s) = 1..Len(Append(K, s))
    BY <1>1, LenProperties
  <1>3. PICK A : A = Append(K, s)
    OBVIOUS
  <1>4. ASSUME NEW i \in DOMAIN A PROVE Len(A[i]) < MaxString
    <2>1. i \in 1..Len(K) \/ i = Len(K) + 1
      BY <1>1, <1>2, <1>3, <1>4
    <2>2. CASE i \in 1..Len(K)
      BY <1>1, <1>2, <1>3, <2>2 DEF Fit
    <2>3. CASE i = Len(K) + 1
      BY <1>1, <1>3, <2>3
    <2>4. QED
      BY <2>1, <2>2, <2>3
  <1>5. QED
    BY <1>3, <1>4 DEF Fit

(* A command that is given up may have stored one character too many. *)
LEMMA StoreGivesUp ==
  ASSUME NEW p, GiveUp(p), Fit(keys'), Fit(vals'),
         \A n \in stored' : n \in 0..(MaxString + 1)
  PROVE  StoreInv'
  BY DEF GiveUp, Run, StoreInv, Fit

(* Nothing too long was stored for a command that is still read. *)
LEMMA StoreGoesOn ==
  ASSUME Fit(keys'), Fit(vals'), \A n \in stored' : n \in 0..MaxString
  PROVE  StoreInv'
  <1>1. MaxString \in Nat
    BY ReaderAssumption
  <1>2. QED
    BY <1>1 DEF StoreInv, Fit

LEMMA StoreReading ==
  ASSUME StoreInv, pc \notin {"next", "end"}
  PROVE  /\ Fit(keys) /\ Fit(vals)
         /\ \A n \in stored : n \in 0..MaxString /\ n \in 0..(MaxString + 1)
  <1>1. MaxString \in Nat
    BY ReaderAssumption
  <1>2. QED
    BY <1>1 DEF StoreInv

LEMMA StoreParsePair ==
  ASSUME ListInv, StoreInv, ParsePair
  PROVE  StoreInv'
  <1>0. /\ text \in Seq(Sym) /\ pos \in 1..(Len(text) + 1) /\ MaxString \in Nat
        /\ keys \in Seq(Seq(Sym)) /\ vals \in Seq(Seq(Sym)) /\ pc = "pairs"
    BY ReaderAssumption DEF ListInv, ParsePair
  <1>1. PICK key : key = ReadString(pos)
    OBVIOUS
  <1>2. PICK val : val = ReadString(key.pos)
    OBVIOUS
  <1>3. PICK a : a = StoredBy(pos)
    OBVIOUS
  <1>4. PICK b : b = StoredBy(key.pos)
    OBVIOUS
  <1>5. /\ key.pos \in 1..(Len(text) + 1) /\ key.str \in Seq(Sym)
        /\ a \in 0..(MaxString + 1)
        /\ key.value # -1 => a <= MaxString /\ Len(key.str) < MaxString
    <2>1. key.pos \in pos..(Len(text) + 1) /\ key.str \in Seq(Sym)
      BY <1>0, <1>1, ReadStringFacts
    <2>2. Len(text) \in Nat
      BY <1>0, LenProperties
    <2>3. key.pos \in 1..(Len(text) + 1)
      BY <1>0, <2>1, <2>2
    <2>4. QED
      BY <1>0, <1>1, <1>3, <2>1, <2>3, StringShort
  <1>6. /\ val.str \in Seq(Sym) /\ b \in 0..(MaxString + 1)
        /\ val.value # -1 => b <= MaxString /\ Len(val.str) < MaxString
    BY <1>0, <1>2, <1>4, <1>5, ReadStringFacts, StringShort
  <1>7. stored' = stored \cup {a} \cup (IF key.value = 0 THEN {b} ELSE {})
    BY <1>1, <1>3, <1>4 DEF ParsePair
  <1>8. /\ Fit(keys) /\ Fit(vals)
        /\ \A n \in stored : n \in 0..MaxString /\ n \in 0..(MaxString + 1)
    BY <1>0, StoreReading
  <1>9. \A n \in stored' : n \in 0..(MaxString + 1)
    BY <1>5, <1>6, <1>7, <1>8
  <1>10. ASSUME NEW p, GiveUp(p), UNCHANGED <<keys, vals>> PROVE StoreInv'
    BY <1>8, <1>9, <1>10, StoreGivesUp
  <1>11. ASSUME keys' = Append(keys, key.str), vals' = Append(vals, val.str),
                key.value = 0, val.value = 1
         PROVE  StoreInv'
    <2>1. Fit(keys') /\ Fit(vals')
      BY <1>0, <1>5, <1>6, <1>8, <1>11, FitsMore
    <2>2. \A n \in stored' : n \in 0..MaxString
      BY <1>0, <1>5, <1>6, <1>7, <1>8, <1>11
    <2>3. QED
      BY <2>1, <2>2, StoreGoesOn
  <1>12. \/ GiveUp(Cleanup(key.pos)) /\ UNCHANGED <<keys, vals>>
         \/ GiveUp(Cleanup(val.pos)) /\ UNCHANGED <<keys, vals>>
         \/ /\ keys' = Append(keys, key.str) /\ vals' = Append(vals, val.str)
            /\ key.value = 0 /\ val.value = 1
    BY <1>1, <1>2, Zenon DEF ParsePair
  <1>13. QED
    BY <1>10, <1>11, <1>12

LEMMA StoreParseKey ==
  ASSUME ListInv, StoreInv, ParseKey
  PROVE  StoreInv'
  <1>0. /\ text \in Seq(Sym) /\ pos \in 1..(Len(text) + 1) /\ MaxString \in Nat
        /\ keys \in Seq(Seq(Sym)) /\ vals' = vals /\ pc = "keys"
    BY ReaderAssumption DEF ListInv, ParseKey
  <1>1. PICK key : key = ReadString(pos)
    OBVIOUS
  <1>2. PICK a : a = StoredBy(pos)
    OBVIOUS
  <1>3. /\ key.str \in Seq(Sym) /\ a \in 0..(MaxString + 1)
        /\ key.value # -1 => a <= MaxString /\ Len(key.str) < MaxString
    BY <1>0, <1>1, <1>2, ReadStringFacts, StringShort
  <1>4. stored' = stored \cup {a}
    BY <1>2 DEF ParseKey
  <1>5. /\ Fit(keys) /\ Fit(vals)
        /\ \A n \in stored : n \in 0..MaxString /\ n \in 0..(MaxString + 1)
    BY <1>0, StoreReading
  <1>6. \/ GiveUp(key.pos) /\ keys' = keys
        \/ keys' = Append(keys, key.str) /\ key.value \in {0, 2}
    BY <1>1, Zenon DEF ParseKey
  <1>7. CASE GiveUp(key.pos) /\ keys' = keys
    <2>1. \A n \in stored' : n \in 0..(MaxString + 1)
      BY <1>3, <1>4, <1>5
    <2>2. QED
      BY <1>0, <1>5, <1>7, <2>1, StoreGivesUp
  <1>8. CASE keys' = Append(keys, key.str) /\ key.value \in {0, 2}
    <2>1. key.value # -1
      BY <1>8
    <2>2. Fit(keys')
      BY <1>0, <1>3, <1>5, <1>8, <2>1, FitsMore
    <2>3. \A n \in stored' : n \in 0..MaxString
      BY <1>0, <1>3, <1>4, <1>5, <2>1
    <2>4. Fit(vals')
      BY <1>0, <1>5
    <2>5. QED
      BY <2>2, <2>3, <2>4, StoreGoesOn
  <1>9. QED
    BY <1>6, <1>7, <1>8

(* What read_string() stores stays within its array for every command that *)
(* is not given up.                                                        *)
LEMMA StoreKept ==
  ASSUME ListInv, StoreInv, [Next]_vars
  PROVE  StoreInv'
  <1>1. CASE GetNext
    <2>1. stored' = {} /\ keys' = <<>> /\ vals' = <<>>
      BY <1>1 DEF GetNext
    <2>2. QED
      BY <2>1 DEF StoreInv, Fit
  <1>2. CASE EndOfCommands
    BY <1>2 DEF EndOfCommands, StoreInv, Fit
  <1>3. CASE Open \/ Close \/ ParseNumber
    <2>1. UNCHANGED <<keys, vals, stored>> /\ pc \notin {"next", "end"}
      BY <1>3 DEF Open, Close, ParseNumber
    <2>2. QED
      BY <2>1, StoreReading, StoreGoesOn
  <1>4. CASE UNCHANGED vars
    BY <1>4 DEF vars, StoreInv, Fit
  <1>5. QED
    BY <1>1, <1>2, <1>3, <1>4, StoreParsePair, StoreParseKey DEF Next

(* The reader stays within its text; neither list outgrows its array, of a *)
(* console a single key; every entry fits its MaxString characters with    *)
(* the 0; and read_string writes within its own array, but for the 0 of a  *)
(* string without an end, one place behind it, of which the command is     *)
(* given up.                                                               *)
THEOREM TypeCorrect == Spec => []TypeOK
  <1> DEFINE Inv == ListInv /\ StoreInv /\ lines \in Seq(Lines[who])
  <1>1. Init => Inv
    <2> SUFFICES ASSUME Init PROVE Inv
      OBVIOUS
    <2>1. ListInv /\ lines \in Seq(Lines[who])
      BY InitList, TextFacts DEF Init
    <2>2. StoreInv
      BY DEF Init, StoreInv, Fit
    <2>3. QED
      BY <2>1, <2>2
  <1>2. Inv /\ [Next]_vars => Inv'
    <2> SUFFICES ASSUME Inv, [Next]_vars
                 PROVE  Inv'
      OBVIOUS
    <2>1. ListInv' /\ StoreInv'
      BY ListKept, StoreKept
    <2>2. (lines \in Seq(Lines[who]))'
      BY SameText
    <2>3. QED
      BY <2>1, <2>2
  <1>3. ASSUME Inv PROVE TypeOK
    <2>0. MaxString \in Nat
      BY ReaderAssumption
    <2>1. /\ who \in Readers /\ lines \in Seq(Lines[who])
          /\ pos \in 1..(Len(text) + 1) /\ from \in 1..(Len(text) + 1)
          /\ pc \in Labels /\ cmd \in Commands /\ run.cmd \in Commands
          /\ Len(keys) <= Limit /\ Len(vals) <= Len(keys)
      BY <1>3 DEF ListInv
    <2>2. Types
      <3>1. \A n \in stored : n \in Nat
        BY <1>3, <2>0 DEF StoreInv
      <3>2. QED
        BY <2>1, <3>1 DEF Types
    <2>3. \A n \in stored : n <= MaxString \/ (n = MaxString + 1 /\ run = Invalid)
      BY <1>3, <2>0 DEF StoreInv
    <2>4. Fit(keys) /\ Fit(vals)
      BY <1>3 DEF StoreInv
    <2>5. QED
      BY <2>1, <2>2, <2>3, <2>4 DEF TypeOK, ArraysHold, Fit
  <1>4. QED
    BY <1>1, <1>2, <1>3, PTL DEF Spec

(* Whatever a line was, the next command is looked for at the beginning of *)
(* a line.                                                                 *)
THEOREM NextLine == Spec => []StartsAtLine
  <1>1. Init => ListInv
    BY InitList
  <1>2. ListInv /\ [Next]_vars => ListInv'
    BY ListKept
  <1>3. ListInv => StartsAtLine
    BY DEF ListInv
  <1>4. QED
    BY <1>1, <1>2, <1>3, PTL DEF Spec
-----------------------------------------------------------------------------
(* What is written *)

(* Three characters a list is made of, as sequences. *)
LEMMA MarkSeqs ==
  /\ \A c \in {"[", "]", "(", ")", Comma} : <<c>> \in Seq(Sym) /\ c \in Sym
  /\ <<>> \in Seq(Sym)
  <1>1. \A c \in {"[", "]", "(", ")", Comma} : c \in Sym
    BY DEF Sym
  <1>2. QED
    BY <1>1, EmptySeq

(* One pair more. *)
LEMMA PairsAppend ==
  ASSUME NEW ks \in Seq(Seq(Sym)), NEW vs \in Seq(Seq(Sym)), Len(ks) = Len(vs),
         NEW k \in Seq(Sym), NEW v \in Seq(Sym)
  PROVE  /\ Pairs(ks, vs) \in Seq(Seq(Sym))
         /\ <<"(">> \o k \o <<Comma>> \o v \o <<")">> \in Seq(Sym)
         /\ Pairs(Append(ks, k), Append(vs, v)) =
              Append(Pairs(ks, vs), <<"(">> \o k \o <<Comma>> \o v \o <<")">>)
  <1> DEFINE Pair(a, b) == <<"(">> \o a \o <<Comma>> \o b \o <<")">>
  <1>1. ASSUME NEW a \in Seq(Sym), NEW b \in Seq(Sym) PROVE Pair(a, b) \in Seq(Sym)
    <2>1. <<"(">> \o a \in Seq(Sym)
      BY MarkSeqs, ConcatProperties
    <2>2. <<"(">> \o a \o <<Comma>> \in Seq(Sym)
      BY <2>1, MarkSeqs, ConcatProperties
    <2>3. <<"(">> \o a \o <<Comma>> \o b \in Seq(Sym)
      BY <2>2, ConcatProperties
    <2>4. QED
      BY <2>3, MarkSeqs, ConcatProperties
  <1> HIDE DEF Pair
  <1>2. PICK n \in Nat : n = Len(ks) /\ DOMAIN ks = 1..n
    BY LenProperties
  <1>3. PICK t : t = [i \in 1..n |-> Pair(ks[i], vs[i])]
    OBVIOUS
  <1>4. \A i \in 1..n : Pair(ks[i], vs[i]) \in Seq(Sym)
    <2>1. \A i \in 1..n : ks[i] \in Seq(Sym) /\ vs[i] \in Seq(Sym)
      BY <1>2, ElementOfSeq
    <2>2. QED
      BY <1>1, <2>1
  <1>5. t \in Seq(Seq(Sym)) /\ Len(t) = n
    BY <1>3, <1>4
  <1>6. Pairs(ks, vs) = t
    BY <1>2, <1>3 DEF Pairs, Pair
  <1>7. PICK kk, vv : kk = Append(ks, k) /\ vv = Append(vs, v)
    OBVIOUS
  <1>8. /\ kk \in Seq(Seq(Sym)) /\ Len(kk) = n + 1 /\ DOMAIN kk = 1..(n + 1)
        /\ kk[n + 1] = k /\ vv[n + 1] = v
        /\ \A i \in 1..n : kk[i] = ks[i] /\ vv[i] = vs[i]
    BY <1>2, <1>7, AppendProperties, LenProperties
  <1>9. PICK u : u = [i \in 1..(n + 1) |-> Pair(kk[i], vv[i])]
    OBVIOUS
  <1>10. Pairs(kk, vv) = u
    BY <1>8, <1>9 DEF Pairs, Pair
  <1>11. u = Append(t, Pair(k, v))
    <2>1. PICK w : w = Append(t, Pair(k, v))
      OBVIOUS
    <2>2. Pair(k, v) \in Seq(Sym)
      BY <1>1
    <2>3. /\ w \in Seq(Seq(Sym)) /\ Len(w) = n + 1 /\ w[n + 1] = Pair(k, v)
          /\ \A i \in 1..n : w[i] = t[i]
      BY <1>5, <2>1, <2>2, AppendProperties
    <2>4. ASSUME NEW i \in 1..(n + 1) PROVE u[i] = w[i] /\ u[i] \in Seq(Sym)
      <3>1. u[i] = Pair(kk[i], vv[i])
        BY <1>9
      <3>2. CASE i = n + 1
        BY <1>8, <2>2, <2>3, <3>1, <3>2
      <3>3. CASE i # n + 1
        <4>1. i \in 1..n
          BY <1>2, <3>3
        <4>2. t[i] = Pair(ks[i], vs[i]) /\ u[i] = Pair(ks[i], vs[i]) /\ w[i] = t[i]
          BY <1>3, <1>8, <2>3, <3>1, <4>1
        <4>3. QED
          BY <1>4, <4>1, <4>2
      <3>4. QED
        BY <3>2, <3>3
    <2>5. u \in Seq(Seq(Sym)) /\ Len(u) = n + 1
      BY <1>9, <2>4
    <2>6. u = w
      BY <2>3, <2>4, <2>5, SeqEqual
    <2>7. QED
      BY <2>1, <2>6
  <1>12. Pairs(ks, vs) \in Seq(Seq(Sym)) /\ Pair(k, v) \in Seq(Sym)
    BY <1>1, <1>5, <1>6
  <1>13. Pairs(Append(ks, k), Append(vs, v)) = Append(Pairs(ks, vs), Pair(k, v))
    BY <1>6, <1>7, <1>10, <1>11
  <1>14. QED
    BY <1>12, <1>13 DEF Pair

(* One name more. *)
LEMMA NamesAppend ==
  ASSUME NEW ks \in Seq(Seq(Sym)), NEW k \in Seq(Sym)
  PROVE  /\ Names(ks) \in Seq(Seq(Sym))
         /\ <<Comma>> \o k \in Seq(Sym)
         /\ Names(Append(ks, k)) =
              Append(Names(ks), IF ks = <<>> THEN k ELSE <<Comma>> \o k)
  <1> DEFINE Name(i, a) == IF i = 1 THEN a ELSE <<Comma>> \o a
  <1>1. ASSUME NEW i, NEW a \in Seq(Sym)
        PROVE  Name(i, a) \in Seq(Sym) /\ <<Comma>> \o a \in Seq(Sym)
    BY MarkSeqs, ConcatProperties
  <1>2. PICK n \in Nat : n = Len(ks) /\ DOMAIN ks = 1..n
    BY LenProperties
  <1>3. PICK x : x = IF ks = <<>> THEN k ELSE <<Comma>> \o k
    OBVIOUS
  <1>4. x = Name(n + 1, k)
    BY <1>2, <1>3, EmptySeq
  <1> HIDE DEF Name
  <1>5. PICK t : t = [i \in 1..n |-> Name(i, ks[i])]
    OBVIOUS
  <1>6. \A i \in 1..n : Name(i, ks[i]) \in Seq(Sym)
    <2>1. \A i \in 1..n : ks[i] \in Seq(Sym)
      BY <1>2, ElementOfSeq
    <2>2. QED
      BY <1>1, <2>1
  <1>7. t \in Seq(Seq(Sym)) /\ Len(t) = n
    BY <1>5, <1>6
  <1>8. Names(ks) = t
    BY <1>2, <1>5 DEF Names, Name
  <1>9. PICK kk : kk = Append(ks, k)
    OBVIOUS
  <1>10. /\ kk \in Seq(Seq(Sym)) /\ Len(kk) = n + 1 /\ DOMAIN kk = 1..(n + 1)
         /\ kk[n + 1] = k /\ \A i \in 1..n : kk[i] = ks[i]
    BY <1>2, <1>9, AppendProperties, LenProperties
  <1>11. PICK u : u = [i \in 1..(n + 1) |-> Name(i, kk[i])]
    OBVIOUS
  <1>12. Names(kk) = u
    BY <1>10, <1>11 DEF Names, Name
  <1>13. u = Append(t, x)
    <2>1. PICK w : w = Append(t, x)
      OBVIOUS
    <2>2. x \in Seq(Sym)
      BY <1>1, <1>4
    <2>3. /\ w \in Seq(Seq(Sym)) /\ Len(w) = n + 1 /\ w[n + 1] = x
          /\ \A i \in 1..n : w[i] = t[i]
      BY <1>7, <2>1, <2>2, AppendProperties
    <2>4. ASSUME NEW i \in 1..(n + 1) PROVE u[i] = w[i] /\ u[i] \in Seq(Sym)
      <3>1. u[i] = Name(i, kk[i])
        BY <1>11
      <3>2. CASE i = n + 1
        BY <1>4, <1>10, <2>2, <2>3, <3>1, <3>2
      <3>3. CASE i # n + 1
        <4>1. i \in 1..n
          BY <3>3
        <4>2. t[i] = Name(i, ks[i]) /\ u[i] = Name(i, ks[i]) /\ w[i] = t[i]
          BY <1>5, <1>10, <2>3, <3>1, <4>1
        <4>3. QED
          BY <1>6, <4>1, <4>2
      <3>4. QED
        BY <3>2, <3>3
    <2>5. u \in Seq(Seq(Sym)) /\ Len(u) = n + 1
      BY <1>11, <2>4
    <2>6. u = w
      BY <2>3, <2>4, <2>5, SeqEqual
    <2>7. QED
      BY <2>1, <2>6
  <1>14. QED
    BY <1>1, <1>3, <1>7, <1>8, <1>9, <1>12, <1>13

Regroups(s, t, u) == (s \o t) \o u = s \o (t \o u)

(* Concatenation is associative, for the sequences met here. *)
LEMMA Assoc ==
  ASSUME NEW s \in Seq(Sym), NEW t \in Seq(Sym), NEW u \in Seq(Sym)
  PROVE  Regroups(s, t, u)
  BY ConcatAssociative DEF Regroups

PairList(ks, vs) == <<"[">> \o FlattenSeq(Pairs(ks, vs))
WithPair(before, k, v) == before \o <<"(">> \o k \o <<Comma>> \o v \o <<")">>

(* A list with one pair more, character by character. *)
LEMMA OnePairMore ==
  ASSUME NEW ks \in Seq(Seq(Sym)), NEW vs \in Seq(Seq(Sym)), Len(ks) = Len(vs),
         NEW k \in Seq(Sym), NEW v \in Seq(Sym)
  PROVE  PairList(Append(ks, k), Append(vs, v)) = WithPair(PairList(ks, vs), k, v)
  <1> DEFINE o == <<"(">>
             m == <<Comma>>
             e == <<")">>
             L == <<"[">>
  <1>1. /\ o \in Seq(Sym) /\ m \in Seq(Sym) /\ e \in Seq(Sym) /\ L \in Seq(Sym)
    BY MarkSeqs
  <1>2. PICK item : item = (((o \o k) \o m) \o v) \o e
    OBVIOUS
  <1>3. PICK F : F = FlattenSeq(Pairs(ks, vs))
    OBVIOUS
  <1>4. PICK G : G = FlattenSeq(Pairs(Append(ks, k), Append(vs, v)))
    OBVIOUS
  <1>5. /\ Pairs(ks, vs) \in Seq(Seq(Sym)) /\ item \in Seq(Sym)
        /\ Pairs(Append(ks, k), Append(vs, v)) = Append(Pairs(ks, vs), item)
    BY <1>2, PairsAppend
  <1>6. F \in Seq(Sym) /\ G = F \o item
    BY <1>3, <1>4, <1>5, FlattenFacts
  <1> HIDE DEF o, m, e, L
  <1>7. PICK B : B = L \o F /\ B \in Seq(Sym)
    BY <1>1, <1>6, ConcatProperties
  <1>8. L \o G = B \o item
    <2>1. L \in Seq(Sym) /\ F \in Seq(Sym) /\ item \in Seq(Sym)
      BY <1>1, <1>5, <1>6
    <2>2. (L \o F) \o item = L \o (F \o item)
      <3>1. Regroups(L, F, item)
        BY <2>1, Assoc
      <3>2. QED
        BY <3>1 DEF Regroups
    <2>3. G = F \o item /\ B = L \o F
      BY <1>6, <1>7, Zenon
    <2>4. QED
      BY <2>2, <2>3
  <1>9. PICK i1, i2 : i1 = o \o k /\ i2 = i1 \o m /\ i1 \in Seq(Sym) /\ i2 \in Seq(Sym)
    BY <1>1, ConcatProperties
  <1>10. PICK i3 : i3 = i2 \o v /\ i3 \in Seq(Sym)
    BY <1>9, ConcatProperties
  <1>11. item = i3 \o e
    BY <1>2, <1>9, <1>10
  <1>12. B \o item = (B \o i3) \o e
    <2>1. B \in Seq(Sym) /\ i3 \in Seq(Sym) /\ e \in Seq(Sym)
      BY <1>1, <1>7, <1>10
    <2>2. (B \o i3) \o e = B \o (i3 \o e)
      <3>1. Regroups(B, i3, e)
        BY <2>1, Assoc
      <3>2. QED
        BY <3>1 DEF Regroups
    <2>3. QED
      BY <1>11, <2>2
  <1>13. B \o i3 = (B \o i2) \o v
    <2>1. B \in Seq(Sym) /\ i2 \in Seq(Sym)
      BY <1>7, <1>9
    <2>2. (B \o i2) \o v = B \o (i2 \o v)
      <3>1. Regroups(B, i2, v)
        BY <2>1, Assoc
      <3>2. QED
        BY <3>1 DEF Regroups
    <2>3. QED
      BY <1>10, <2>2
  <1>14. B \o i2 = (B \o i1) \o m
    <2>1. B \in Seq(Sym) /\ i1 \in Seq(Sym) /\ m \in Seq(Sym)
      BY <1>1, <1>7, <1>9
    <2>2. (B \o i1) \o m = B \o (i1 \o m)
      <3>1. Regroups(B, i1, m)
        BY <2>1, Assoc
      <3>2. QED
        BY <3>1 DEF Regroups
    <2>3. QED
      BY <1>9, <2>2
  <1>15. B \o i1 = (B \o o) \o k
    <2>1. B \in Seq(Sym) /\ o \in Seq(Sym)
      BY <1>1, <1>7
    <2>2. (B \o o) \o k = B \o (o \o k)
      <3>1. Regroups(B, o, k)
        BY <2>1, Assoc
      <3>2. QED
        BY <3>1 DEF Regroups
    <2>3. i1 = o \o k
      BY <1>9, Zenon
    <2>4. QED
      BY <2>2, <2>3
  <1>16. L \o G = ((((B \o o) \o k) \o m) \o v) \o e
    BY <1>8, <1>12, <1>13, <1>14, <1>15
  <1>17. QED
    BY <1>3, <1>4, <1>7, <1>16 DEF o, m, e, L, PairList, WithPair

(* A list with one name more. *)
LEMMA OneNameMore ==
  ASSUME NEW ks \in Seq(Seq(Sym)), NEW k \in Seq(Sym)
  PROVE  LET before == <<"[">> \o FlattenSeq(Names(ks))
         IN  /\ before \in Seq(Sym)
             /\ <<"[">> \o FlattenSeq(Names(Append(ks, k))) =
                  IF ks = <<>> THEN <<"[">> \o k ELSE (before \o <<Comma>>) \o k
  <1> DEFINE m == <<Comma>>
             L == <<"[">>
  <1>1. m \in Seq(Sym) /\ L \in Seq(Sym) /\ <<>> \in Seq(Sym)
    BY MarkSeqs
  <1>2. PICK item : item = IF ks = <<>> THEN k ELSE m \o k
    OBVIOUS
  <1>3. PICK F : F = FlattenSeq(Names(ks))
    OBVIOUS
  <1>4. PICK G : G = FlattenSeq(Names(Append(ks, k)))
    OBVIOUS
  <1>5. /\ Names(ks) \in Seq(Seq(Sym)) /\ item \in Seq(Sym)
        /\ Names(Append(ks, k)) = Append(Names(ks), item)
    BY <1>2, NamesAppend
  <1>6. F \in Seq(Sym) /\ G = F \o item
    BY <1>3, <1>4, <1>5, FlattenFacts
  <1> HIDE DEF m, L
  <1>7. PICK B : B = L \o F /\ B \in Seq(Sym)
    BY <1>1, <1>6, ConcatProperties
  <1>8. L \o G = B \o item
    <2>1. L \in Seq(Sym) /\ F \in Seq(Sym) /\ item \in Seq(Sym)
      BY <1>1, <1>5, <1>6
    <2>2. (L \o F) \o item = L \o (F \o item)
      <3>1. Regroups(L, F, item)
        BY <2>1, Assoc
      <3>2. QED
        BY <3>1 DEF Regroups
    <2>3. QED
      BY <1>6, <1>7, <2>2
  <1>9. CASE ks = <<>>
    <2>1. Names(ks) = <<>>
      BY <1>9 DEF Names
    <2>2. F = <<>>
      BY <1>3, <2>1, <1>5, FlattenFacts
    <2>3. B = L
      BY <1>1, <1>7, <2>2, ConcatEmptySeq
    <2>4. L \o G = L \o k
      BY <1>2, <1>8, <1>9, <2>3
    <2>5. QED
      BY <1>3, <1>4, <1>7, <1>9, <2>4 DEF L
  <1>10. CASE ks # <<>>
    <2>1. item = m \o k
      BY <1>2, <1>10
    <2>2. (B \o m) \o k = B \o (m \o k)
      <3>1. B \in Seq(Sym) /\ m \in Seq(Sym)
        BY <1>1, <1>7
      <3>2. Regroups(B, m, k)
        BY <3>1, Assoc
      <3>3. QED
        BY <3>2 DEF Regroups
    <2>3. L \o G = (B \o m) \o k
      BY <1>8, <2>1, <2>2
    <2>4. QED
      BY <1>3, <1>4, <1>7, <1>10, <2>3 DEF L, m
  <1>11. QED
    BY <1>9, <1>10

(* One character read. *)
LEMMA CharRead ==
  ASSUME text \in Seq(Sym), NEW a \in Nat \ {0}, NEW p \in Nat \ {0}, a <= p,
         NEW c, Is(p, {c})
  PROVE  /\ SubSeq(text, a, p) = SubSeq(text, a, p - 1) \o <<c>>
         /\ p \in 1..Len(text)
  <1>1. p \in 1..Len(text) /\ text[p] = c
    BY IsFacts
  <1>2. Len(text) \in Nat
    BY LenProperties
  <1>3. a \in 1..Len(text) /\ p \in a..Len(text)
    BY <1>1, <1>2
  <1>4. QED
    BY <1>1, <1>3, SubSeqRecursiveSecond

(* A character that is read comes behind what was read before, *)
LEMMA AtChar ==
  ASSUME text \in Seq(Sym), from \in Nat \ {0}, NEW w \in Seq(Sym), NEW h \in Seq(Sym),
         NEW p \in Nat \ {0}, At(w, p, h), NEW c, Is(p, {c})
  PROVE  At(w, p + 1, h \o <<c>>) /\ h \o <<c>> \in Seq(Sym) /\ p \in 1..Len(text)
  <1>1. /\ SubSeq(text, from, p) = SubSeq(text, from, p - 1) \o <<c>>
        /\ p \in 1..Len(text)
    BY CharRead DEF At
  <1>2. <<c>> \in Seq(Sym)
    <2>1. c \in Sym
      BY <1>1, IsFacts, ElementOfSeq
    <2>2. QED
      BY <2>1
  <1>3. (w \o h) \o <<c>> = w \o (h \o <<c>>)
    <2>1. Regroups(w, h, <<c>>)
      BY <1>2, Assoc
    <2>2. QED
      BY <2>1 DEF Regroups
  <1>4. SubSeq(text, from, p) = w \o (h \o <<c>>)
    BY <1>1, <1>3, Zenon DEF At
  <1>5. PICK q : q = p + 1 /\ q - 1 = p /\ from <= q
    BY DEF At
  <1>6. h \o <<c>> \in Seq(Sym)
    BY <1>2, ConcatProperties
  <1>7. At(w, q, h \o <<c>>)
    BY <1>4, <1>5 DEF At
  <1>8. QED
    BY <1>1, <1>5, <1>6, <1>7

(* and so does a key or value. *)
LEMMA AtString ==
  ASSUME text \in Seq(Sym), from \in Nat \ {0}, NEW w \in Seq(Sym), NEW h \in Seq(Sym),
         NEW p \in 1..(Len(text) + 1), At(w, p, h),
         NEW R, R = ReadString(p), R.value # -1, NEW c,
         c = IF R.value = 0 THEN Comma ELSE IF R.value = 1 THEN ")" ELSE "]"
  PROVE  /\ At(w, R.pos, (h \o R.str) \o <<c>>)
         /\ R.str \in Seq(Sym) /\ (h \o R.str) \o <<c>> \in Seq(Sym)
         /\ R.pos \in 1..(Len(text) + 1) /\ R.pos \in Nat \ {0}
  <1>0. Len(text) \in Nat /\ p \in Nat \ {0} /\ from <= p
    BY LenProperties DEF At
  <1>1. PICK q, s : q = R.pos /\ s = R.str
    OBVIOUS
  <1>2. /\ s \in Seq(Sym)
        /\ SubSeq(text, from, q - 1) = (SubSeq(text, from, p - 1) \o s) \o <<c>>
        /\ q \in (p + 1)..(Len(text) + 1)
    <2>1. /\ s \in Seq(Sym) /\ q \in p..(Len(text) + 1) /\ q > p
          /\ s = SubSeq(text, p, q - 2) /\ text[q - 1] = c
      BY <1>1, ReadStringFacts
    <2>2. q \in Nat /\ q - 1 \in from..Len(text) /\ from \in 1..Len(text) /\ q - 1 - 1 = q - 2
      BY <1>0, <2>1
    <2>3. SubSeq(text, from, q - 1) = SubSeq(text, from, q - 2) \o <<c>>
      BY <2>1, <2>2, SubSeqRecursiveSecond
    <2>4. SubSeq(text, from, q - 2) = SubSeq(text, from, p - 1) \o s
      <3>1. PICK k, n : k = p - 1 /\ n = q - 2
        OBVIOUS
      <3>2. /\ from \in 1..(Len(text) + 1) /\ k \in (from - 1)..Len(text)
            /\ n \in k..Len(text) /\ k + 1 = p
        BY <1>0, <2>1, <3>1
      <3>3. SubSeq(text, from, k) \o SubSeq(text, k + 1, n) = SubSeq(text, from, n)
        BY <3>2, ConcatAdjacentSubSeq
      <3>4. QED
        BY <2>1, <3>1, <3>2, <3>3
    <2>5. q \in (p + 1)..(Len(text) + 1)
      BY <1>0, <2>1
    <2>6. QED
      BY <2>1, <2>3, <2>4, <2>5
  <1>3. <<c>> \in Seq(Sym)
    BY MarkSeqs
  <1>4. PICK t, y, z : /\ t = <<c>> /\ y = SubSeq(text, from, p - 1)
                       /\ z = SubSeq(text, from, q - 1)
    OBVIOUS
  <1>5. t \in Seq(Sym) /\ s \in Seq(Sym) /\ y = w \o h /\ z = (y \o s) \o t
    BY <1>2, <1>3, <1>4 DEF At
  <1>6. z = w \o ((h \o s) \o t) /\ (h \o s) \o t \in Seq(Sym)
    <2>1. PICK x : x = h \o s
      OBVIOUS
    <2>2. x \in Seq(Sym)
      BY <1>5, <2>1, ConcatProperties
    <2>3. x \o t \in Seq(Sym)
      BY <1>5, <2>2, ConcatProperties
    <2>4. (w \o h) \o s = w \o (h \o s)
      <3>1. Regroups(w, h, s)
        BY <1>5, Assoc
      <3>2. QED
        BY <3>1 DEF Regroups
    <2>5. (w \o x) \o t = w \o (x \o t)
      <3>1. Regroups(w, x, t)
        BY <1>5, <2>2, Assoc
      <3>2. QED
        BY <3>1 DEF Regroups
    <2>6. y \o s = w \o x
      BY <1>5, <2>1, <2>4
    <2>7. z = w \o (x \o t)
      BY <1>5, <2>5, <2>6
    <2>8. QED
      BY <2>1, <2>3, <2>7
  <1>7. from <= q /\ q \in 1..(Len(text) + 1) /\ q \in Nat \ {0}
    <2>1. from <= p
      BY DEF At
    <2>2. QED
      BY <1>0, <1>2, <2>1
  <1>8. At(w, q, (h \o s) \o t)
    BY <1>4, <1>6, <1>7 DEF At
  <1>9. QED
    BY <1>1, <1>2, <1>4, <1>6, <1>7, <1>8

(* What is written so far is a sequence of characters. *)
LEMMA SoFarIs ==
  ASSUME NEW label, NEW c, NEW ks \in Seq(Seq(Sym)), NEW vs \in Seq(Seq(Sym)),
         c = "WRITE" => Len(ks) = Len(vs)
  PROVE  SoFar(label, c, ks, vs) \in Seq(Sym)
  <1>1. PICK list : list = <<"[">> \o FlattenSeq(Items(c, ks, vs))
    OBVIOUS
  <1>2. list \in Seq(Sym)
    <2>1. CASE c = "WRITE"
      <3>1. Pairs(ks, vs) \in Seq(Seq(Sym))
        BY <2>1, PairsAppend, MarkSeqs
      <3>2. FlattenSeq(Pairs(ks, vs)) \in Seq(Sym)
        BY <3>1, FlattenFacts
      <3>3. list = <<"[">> \o FlattenSeq(Pairs(ks, vs))
        BY <1>1, <2>1 DEF Items
      <3>4. QED
        BY <3>2, <3>3, MarkSeqs, ConcatProperties
    <2>2. CASE c # "WRITE"
      <3>1. Names(ks) \in Seq(Seq(Sym))
        BY NamesAppend, MarkSeqs
      <3>2. FlattenSeq(Names(ks)) \in Seq(Sym)
        BY <3>1, FlattenFacts
      <3>3. list = <<"[">> \o FlattenSeq(Names(ks))
        BY <1>1, <2>2 DEF Items
      <3>4. QED
        BY <3>2, <3>3, MarkSeqs, ConcatProperties
    <2>3. QED
      BY <2>1, <2>2
  <1>3. list \o <<"(">> \in Seq(Sym) /\ list \o <<"]">> \in Seq(Sym) /\ list \o <<Comma>> \in Seq(Sym)
    BY <1>2, MarkSeqs, ConcatProperties
  <1>4. QED
    BY <1>1, <1>3, MarkSeqs DEF SoFar

(* The keyword and what is written behind it, of a list being read. *)
LEMMA ReadSoFar ==
  ASSUME ListInv, ReadInv, pc \in {"open", "pairs", "keys", "close"}
  PROVE  \E w : /\ w \in AllWords /\ w.cmd = cmd /\ w.text \in Seq(Sym)
                /\ At(w.text, pos, SoFar(pc, cmd, keys, vals))
                /\ SoFar(pc, cmd, keys, vals) \in Seq(Sym)
  <1>1. PICK w : /\ w \in AllWords /\ w.cmd = cmd
                 /\ At(w.text, pos, SoFar(pc, cmd, keys, vals))
    BY Zenon DEF ReadInv
  <1>2. w.text \in Seq(Letters)
    BY <1>1, WordFacts
  <1>3. w.text \in Seq(Sym)
    BY <1>2, SeqMonotonic DEF Sym
  <1>4. /\ keys \in Seq(Seq(Sym)) /\ vals \in Seq(Seq(Sym))
        /\ pc # "keys" /\ cmd = "WRITE" => Len(keys) = Len(vals)
        /\ pc = "keys" => cmd # "WRITE"
    BY EmptySeq DEF ListInv
  <1>5. SoFar(pc, cmd, keys, vals) \in Seq(Sym)
    BY <1>4, SoFarIs
  <1>6. QED
    BY <1>1, <1>3, <1>5

(* After a step that runs nothing with keys, nothing is claimed. *)
LEMMA RunsNoKeys ==
  ASSUME pc' \notin {"open", "pairs", "keys", "close"}, run'.keys = <<>>
  PROVE  ReadInv'
  BY DEF ReadInv

(* Nor after one that gives up. *)
LEMMA GivesUpReading ==
  ASSUME NEW p, GiveUp(p)
  PROVE  ReadInv'
  <1>1. pc' = "next" /\ run' = Invalid
    BY DEF GiveUp, Run
  <1>2. QED
    BY <1>1, RunFacts, RunsNoKeys

(* A step that reads on. *)
LEMMA ReadsOn ==
  ASSUME ListInv, ReadInv, pc \in {"open", "pairs", "keys", "close"},
         NEW label, NEW p, Parsing(label, p), NEW w \in AllWords, w.cmd = cmd,
         At(w.text, p, SoFar(label, cmd, keys', vals'))
  PROVE  ReadInv'
  <1>1. /\ pc' = label /\ pos' = p /\ text' = text /\ cmd' = cmd
        /\ from' = from /\ run' = run
    BY DEF Parsing
  <1>2. run'.keys = <<>>
    BY <1>1 DEF ReadInv
  <1>3. SoFar(label, cmd, keys', vals') = SoFar(pc, cmd, keys, vals)'
    BY <1>1
  <1>4. At(w.text, pos, SoFar(pc, cmd, keys, vals))'
    BY <1>1, <1>3 DEF At
  <1>5. \E v \in AllWords : v.cmd = cmd' /\ At(v.text, pos, SoFar(pc, cmd, keys, vals))'
    BY <1>1, <1>4
  <1>6. QED
    BY <1>2, <1>5 DEF ReadInv

(* get_next() *)
LEMMA ReadGetNext ==
  ASSUME ListInv, GetNext
  PROVE  ReadInv'
  <1>1. run' \in {Nothing, Invalid} /\ pc' \in {"next", "number"} => ReadInv'
    BY RunFacts, RunsNoKeys
  <1>2. ASSUME NEW w \in Matching, run' = [Nothing EXCEPT !.cmd = w.cmd],
               pc' = IF w.cmd = "DISCONNECT" THEN "end" ELSE "next"
        PROVE  ReadInv'
    <2>1. w.cmd \in Commands
      BY MatchFacts, RunFacts
    <2>2. run'.keys = <<>>
      BY <1>2, <2>1, RunFacts
    <2>3. QED
      BY <1>2, <2>2, RunsNoKeys
  <1>3. ASSUME NEW w \in Matching, pos' = pos + Len(w.text), cmd' = w.cmd,
               run' = Nothing,
               pc' = IF w.cmd \in {"WAIT", "DELAY"} THEN "number" ELSE "open"
        PROVE  ReadInv'
    <2>1. CASE pc' = "number"
      BY <1>1, <1>3, <2>1
    <2>2. CASE pc' = "open"
      <3>1. from' = pos /\ text' = text /\ keys' = <<>> /\ vals' = <<>>
        BY DEF GetNext
      <3>2. PICK n : n = Len(w.text) /\ n \in 1..12
        BY MatchFacts
      <3>3. /\ w \in AllWords /\ SubSeq(text, pos, pos + n - 1) = w.text
        BY <3>2, MatchFacts
      <3>4. w.text \in Seq(Letters)
        BY <3>3, WordFacts
      <3>5. SoFar(pc, cmd, keys, vals)' = <<>>
        BY <2>2 DEF SoFar
      <3>6. w.text \o <<>> = w.text
        BY <3>4, ConcatEmptySeq
      <3>7. pos \in Nat
        BY ListFacts
      <3>8. pos' = pos + n
        BY <1>3, <3>2
      <3>9. from' <= pos'
        BY <3>1, <3>2, <3>7, <3>8
      <3>10. SubSeq(text', from', pos' - 1) = w.text
        <4>1. pos' - 1 = pos + n - 1
          BY <3>2, <3>7, <3>8
        <4>2. QED
          BY <3>1, <3>3, <4>1
      <3>11. At(w.text, pos, SoFar(pc, cmd, keys, vals))'
        BY <3>5, <3>6, <3>9, <3>10 DEF At
      <3>12. run'.keys = <<>>
        BY <1>3, RunFacts
      <3>13. \E v \in AllWords : v.cmd = cmd' /\ At(v.text, pos, SoFar(pc, cmd, keys, vals))'
        BY <1>3, <3>3, <3>11
      <3>14. QED
        BY <3>12, <3>13 DEF ReadInv
    <2>3. QED
      BY <1>3, <2>1, <2>2
  <1>4. \/ run' \in {Nothing, Invalid} /\ pc' = "next"
        \/ \E w \in Matching :
             \/ /\ pos' = pos + Len(w.text) /\ cmd' = w.cmd /\ run' = Nothing
                /\ pc' = IF w.cmd \in {"WAIT", "DELAY"} THEN "number" ELSE "open"
             \/ /\ run' = [Nothing EXCEPT !.cmd = w.cmd]
                /\ pc' = IF w.cmd = "DISCONNECT" THEN "end" ELSE "next"
    BY Zenon DEF GetNext
  <1>5. QED
    BY <1>1, <1>2, <1>3, <1>4

(* The beginning of a list *)
LEMMA ReadOpen ==
  ASSUME ListInv, ReadInv, Open
  PROVE  ReadInv'
  <1>0. /\ text \in Seq(Sym) /\ pos \in Nat \ {0} /\ from \in Nat \ {0}
        /\ pc = "open" /\ keys = <<>> /\ keys' = keys /\ vals' = vals
    BY ListFacts DEF ListInv, Open
  <1>1. PICK w : /\ w \in AllWords /\ w.cmd = cmd /\ w.text \in Seq(Sym)
                 /\ At(w.text, pos, SoFar(pc, cmd, keys, vals))
    BY <1>0, ReadSoFar
  <1>2. PICK u : u = w.text /\ u \in Seq(Sym)
    BY <1>1
  <1>3. At(u, pos, <<>>) /\ <<>> \in Seq(Sym)
    BY <1>0, <1>1, <1>2, MarkSeqs DEF SoFar
  <1>4. ASSUME Is(pos, {"["}) PROVE At(u, pos + 1, <<"[">>)
    <2>1. At(u, pos + 1, <<>> \o <<"[">>)
      BY <1>0, <1>2, <1>3, <1>4, AtChar
    <2>2. <<>> \o <<"[">> = <<"[">>
      BY MarkSeqs, ConcatEmptySeq
    <2>3. QED
      BY <2>1, <2>2
  <1>5. CASE \E p : GiveUp(p)
    BY <1>5, GivesUpReading
  <1>6. CASE cmd # "WRITE" /\ Is(pos, {"["}) /\ Parsing("keys", pos + 1)
    <2>1. SoFar("keys", cmd, keys', vals') = <<"[">>
      BY <1>0 DEF SoFar
    <2>2. At(w.text, pos + 1, SoFar("keys", cmd, keys', vals'))
      BY <1>2, <1>4, <1>6, <2>1
    <2>3. QED
      BY <1>0, <1>1, <1>6, <2>2, ReadsOn
  <1>7. CASE /\ cmd = "WRITE" /\ Is(pos, {"["}) /\ Is(pos + 1, {"("})
             /\ Parsing("pairs", pos + 2)
    <2>1. SoFar("pairs", cmd, keys', vals') = <<"[">> \o <<"(">>
      <3>1. FlattenSeq(Items(cmd, keys', vals')) = <<>>
        <4>1. Items(cmd, keys', vals') = <<>>
          BY <1>0, <1>7 DEF Items, Pairs
        <4>2. QED
          BY <4>1, FlattenIs, EmptySeq
      <3>2. <<"[">> \o <<>> = <<"[">>
        BY MarkSeqs, ConcatEmptySeq
      <3>3. QED
        BY <3>1, <3>2 DEF SoFar
    <2>2. PICK q : q = pos + 1 /\ q \in Nat \ {0} /\ q + 1 = pos + 2
      BY <1>0
    <2>3. At(u, q, <<"[">>) /\ <<"[">> \in Seq(Sym)
      BY <1>4, <1>7, <2>2, MarkSeqs
    <2>4. At(u, q + 1, <<"[">> \o <<"(">>)
      BY <1>0, <1>2, <1>7, <2>2, <2>3, AtChar
    <2>5. At(w.text, pos + 2, SoFar("pairs", cmd, keys', vals'))
      BY <1>2, <2>1, <2>2, <2>4
    <2>6. QED
      BY <1>0, <1>1, <1>7, <2>5, ReadsOn
  <1>8. \/ \E p : GiveUp(p)
        \/ cmd # "WRITE" /\ Is(pos, {"["}) /\ Parsing("keys", pos + 1)
        \/ /\ cmd = "WRITE" /\ Is(pos, {"["}) /\ Is(pos + 1, {"("})
           /\ Parsing("pairs", pos + 2)
    BY Zenon DEF Open
  <1>9. QED
    BY <1>5, <1>6, <1>7, <1>8

(* A pair of a WRITE *)
LEMMA ReadParsePair ==
  ASSUME ListInv, ReadInv, ParsePair
  PROVE  ReadInv'
  <1>0. /\ text \in Seq(Sym) /\ pos \in 1..(Len(text) + 1) /\ from \in Nat \ {0}
        /\ pc = "pairs" /\ cmd = "WRITE" /\ Len(keys) = Len(vals)
        /\ keys \in Seq(Seq(Sym)) /\ vals \in Seq(Seq(Sym))
    BY ListFacts DEF ListInv, ParsePair
  <1>1. PICK w : /\ w \in AllWords /\ w.cmd = cmd /\ w.text \in Seq(Sym)
                 /\ At(w.text, pos, SoFar(pc, cmd, keys, vals))
                 /\ SoFar(pc, cmd, keys, vals) \in Seq(Sym)
    BY <1>0, ReadSoFar
  <1>2. PICK u, h : /\ u = w.text /\ u \in Seq(Sym)
                    /\ h = SoFar(pc, cmd, keys, vals) /\ h \in Seq(Sym)
    BY <1>1
  <1>3. PICK key, val : key = ReadString(pos) /\ val = ReadString(key.pos)
    OBVIOUS
  <1>4. PICK kp, vp, k, v : kp = key.pos /\ vp = val.pos /\ k = key.str /\ v = val.str
    OBVIOUS
  <1>5. CASE \E p : GiveUp(p)
    BY <1>5, GivesUpReading
  <1>6. CASE /\ key.value = 0 /\ val.value = 1
             /\ keys' = Append(keys, k) /\ vals' = Append(vals, v)
             /\ Is(vp, {"(", "]"})
             /\ Parsing(IF Is(vp, {"]"}) THEN "close" ELSE "pairs", vp + 1)
    <2>1. At(u, pos, h)
      BY <1>1, <1>2
    <2>2. /\ At(u, kp, (h \o k) \o <<Comma>>) /\ (h \o k) \o <<Comma>> \in Seq(Sym)
          /\ k \in Seq(Sym) /\ kp \in 1..(Len(text) + 1)
      <3>1. key.value # -1 /\ Comma = IF key.value = 0 THEN Comma ELSE IF key.value = 1 THEN ")" ELSE "]"
        BY <1>6
      <3>2. QED
        BY <1>0, <1>2, <1>3, <1>4, <2>1, <3>1, AtString
    <2>3. PICK g : g = (h \o k) \o <<Comma>> /\ g \in Seq(Sym) /\ At(u, kp, g)
      BY <2>2
    <2>4. /\ At(u, vp, (g \o v) \o <<")">>) /\ (g \o v) \o <<")">> \in Seq(Sym)
          /\ v \in Seq(Sym) /\ vp \in Nat \ {0}
      <3>1. val.value # -1 /\ ")" = IF val.value = 0 THEN Comma ELSE IF val.value = 1 THEN ")" ELSE "]"
        BY <1>6
      <3>2. val = ReadString(kp)
        BY <1>3, <1>4
      <3>3. /\ text \in Seq(Sym) /\ from \in Nat \ {0} /\ u \in Seq(Sym)
            /\ g \in Seq(Sym) /\ kp \in 1..(Len(text) + 1) /\ At(u, kp, g)
        BY <1>0, <1>2, <2>2, <2>3
      <3>4. vp = val.pos /\ v = val.str
        BY <1>4
      <3>5. QED
        BY <3>1, <3>2, <3>3, <3>4, AtString
    <2>5. PICK f : f = (g \o v) \o <<")">> /\ f \in Seq(Sym) /\ At(u, vp, f)
      BY <2>4
    <2>6. PICK c, label : /\ c = (IF Is(vp, {"]"}) THEN "]" ELSE "(")
                          /\ label = IF Is(vp, {"]"}) THEN "close" ELSE "pairs"
      OBVIOUS
    <2>7. Is(vp, {c})
      BY <1>6, <2>6 DEF Is
    <2>8. At(u, vp + 1, f \o <<c>>)
      BY <1>0, <1>2, <2>4, <2>5, <2>7, AtChar
    <2>9. f \o <<c>> = SoFar(label, cmd, keys', vals')
      <3>1. PICK before : before = PairList(keys, vals)
        OBVIOUS
      <3>2. h = before \o <<"(">>
        BY <1>0, <1>2, <3>1 DEF SoFar, Items, PairList
      <3>3. PairList(Append(keys, k), Append(vals, v)) = WithPair(before, k, v)
        <4>1. k \in Seq(Sym) /\ v \in Seq(Sym)
          BY <2>2, <2>4
        <4>2. /\ keys \in Seq(Seq(Sym)) /\ vals \in Seq(Seq(Sym))
              /\ Len(keys) = Len(vals)
          BY <1>0
        <4>3. QED
          BY <3>1, <4>1, <4>2, OnePairMore
      <3>4. f = <<"[">> \o FlattenSeq(Pairs(keys', vals'))
        <4>1. f = WithPair(before, k, v)
          BY <2>3, <2>5, <3>2 DEF WithPair
        <4>2. QED
          BY <1>6, <3>3, <4>1 DEF PairList
      <3>5. f = <<"[">> \o FlattenSeq(Items(cmd, keys', vals'))
        BY <1>0, <3>4 DEF Items
      <3>6. CASE Is(vp, {"]"})
        BY <2>6, <3>5, <3>6 DEF SoFar
      <3>7. CASE ~Is(vp, {"]"})
        BY <2>6, <3>5, <3>7 DEF SoFar
      <3>8. QED
        BY <3>6, <3>7
    <2>10. At(w.text, vp + 1, SoFar(label, cmd, keys', vals'))
      BY <1>2, <2>8, <2>9
    <2>11. Parsing(label, vp + 1)
      BY <1>6, <2>6
    <2>12. QED
      BY <1>0, <1>1, <2>10, <2>11, ReadsOn
  <1>7. \/ \E p : GiveUp(p)
        \/ /\ key.value = 0 /\ val.value = 1
           /\ keys' = Append(keys, k) /\ vals' = Append(vals, v)
           /\ Is(vp, {"(", "]"})
           /\ Parsing(IF Is(vp, {"]"}) THEN "close" ELSE "pairs", vp + 1)
    BY <1>3, <1>4, Zenon DEF ParsePair
  <1>8. QED
    BY <1>5, <1>6, <1>7

(* A key of another list *)
LEMMA ReadParseKey ==
  ASSUME ListInv, ReadInv, ParseKey
  PROVE  ReadInv'
  <1>0. /\ text \in Seq(Sym) /\ pos \in 1..(Len(text) + 1) /\ from \in Nat \ {0}
        /\ pc = "keys" /\ cmd # "WRITE"
        /\ keys \in Seq(Seq(Sym))
    BY ListFacts DEF ListInv, ParseKey
  <1>1. PICK w : /\ w \in AllWords /\ w.cmd = cmd /\ w.text \in Seq(Sym)
                 /\ At(w.text, pos, SoFar(pc, cmd, keys, vals))
                 /\ SoFar(pc, cmd, keys, vals) \in Seq(Sym)
    BY <1>0, ReadSoFar
  <1>2. PICK u, h : /\ u = w.text /\ u \in Seq(Sym)
                    /\ h = SoFar(pc, cmd, keys, vals) /\ h \in Seq(Sym)
    BY <1>1
  <1>3. PICK key : key = ReadString(pos)
    OBVIOUS
  <1>4. PICK kp, k : kp = key.pos /\ k = key.str
    OBVIOUS
  <1>5. CASE \E p : GiveUp(p)
    BY <1>5, GivesUpReading
  <1>6. CASE /\ key.value \in {0, 2} /\ keys' = Append(keys, k)
             /\ Parsing(IF key.value = 2 THEN "close" ELSE "keys", kp)
    <2>1. At(u, pos, h)
      BY <1>1, <1>2
    <2>2. PICK c, label : /\ c = (IF key.value = 2 THEN "]" ELSE Comma)
                          /\ label = IF key.value = 2 THEN "close" ELSE "keys"
      OBVIOUS
    <2>3. At(u, kp, (h \o k) \o <<c>>) /\ k \in Seq(Sym)
      <3>1. key.value # -1 /\ c = IF key.value = 0 THEN Comma ELSE IF key.value = 1 THEN ")" ELSE "]"
        BY <1>6, <2>2
      <3>2. QED
        BY <1>0, <1>2, <1>3, <1>4, <2>1, <3>1, AtString
    <2>4. h \o k = <<"[">> \o FlattenSeq(Names(keys'))
      <3>1. PICK before : before = <<"[">> \o FlattenSeq(Names(keys))
        OBVIOUS
      <3>2. h = IF keys = <<>> THEN <<"[">> ELSE before \o <<Comma>>
        BY <1>0, <1>2, <3>1 DEF SoFar, Items
      <3>3. <<"[">> \o FlattenSeq(Names(Append(keys, k))) =
              IF keys = <<>> THEN <<"[">> \o k ELSE (before \o <<Comma>>) \o k
        <4>1. k \in Seq(Sym) /\ keys \in Seq(Seq(Sym))
          BY <1>0, <2>3
        <4>2. <<"[">> \o FlattenSeq(Names(Append(keys, k))) =
                IF keys = <<>> THEN <<"[">> \o k
                ELSE ((<<"[">> \o FlattenSeq(Names(keys))) \o <<Comma>>) \o k
          BY <4>1, OneNameMore
        <4>3. QED
          BY <3>1, <4>2
      <3>4. QED
        BY <1>6, <3>2, <3>3
    <2>5. (h \o k) \o <<c>> = SoFar(label, cmd, keys', vals')
      <3>1. keys' # <<>>
        <4>1. k \in Seq(Sym) /\ keys \in Seq(Seq(Sym))
          BY <1>0, <2>3
        <4>2. Append(keys, k) # <<>>
          BY <4>1, AppendProperties
        <4>3. QED
          BY <1>6, <4>2
      <3>2. h \o k = <<"[">> \o FlattenSeq(Items(cmd, keys', vals'))
        BY <1>0, <2>4 DEF Items
      <3>3. CASE key.value = 2
        BY <2>2, <3>2, <3>3 DEF SoFar
      <3>4. CASE key.value # 2
        BY <2>2, <3>1, <3>2, <3>4 DEF SoFar
      <3>5. QED
        BY <3>3, <3>4
    <2>6. At(w.text, kp, SoFar(label, cmd, keys', vals'))
      BY <1>2, <2>3, <2>5
    <2>7. Parsing(label, kp)
      BY <1>6, <2>2
    <2>8. QED
      BY <1>0, <1>1, <2>6, <2>7, ReadsOn
  <1>7. \/ \E p : GiveUp(p)
        \/ /\ key.value \in {0, 2} /\ keys' = Append(keys, k)
           /\ Parsing(IF key.value = 2 THEN "close" ELSE "keys", kp)
    BY <1>3, <1>4, Zenon DEF ParseKey
  <1>8. QED
    BY <1>5, <1>6, <1>7

(* A list that is complete is written as Listed says. *)
LEMMA ListedIs ==
  ASSUME NEW c, NEW ks, NEW vs, NEW r, r.cmd = c, r.keys = ks, r.vals = vs
  PROVE  Listed(r) = SoFar("close", c, ks, vs)
  <1>1. Listed(r) =
          <<"[">> \o FlattenSeq(IF c = "WRITE" THEN Pairs(ks, vs) ELSE Names(ks)) \o <<"]">>
    BY DEF Listed, Pairs, Names
  <1>2. QED
    BY <1>1 DEF SoFar, Items

(* The end of a list: the command is run. *)
LEMMA ReadClose ==
  ASSUME ListInv, ReadInv, Close
  PROVE  ReadInv'
  <1>0. /\ text \in Seq(Sym) /\ pos \in Nat \ {0} /\ pc = "close"
    BY ListFacts DEF ListInv, Close
  <1>1. PICK w : /\ w \in AllWords /\ w.cmd = cmd
                 /\ At(w.text, pos, SoFar(pc, cmd, keys, vals))
    BY <1>0, ReadSoFar
  <1>2. CASE ~Is(pos, Closers)
    BY <1>2, GivesUpReading DEF Close
  <1>3. CASE Is(pos, Closers)
    <2>1. PICK r : r = [cmd |-> cmd, keys |-> keys, vals |-> vals]
      OBVIOUS
    <2>2. pc' = "next" /\ pos' = pos + 1 /\ run' = r /\ text' = text /\ from' = from
      BY <1>3, <2>1 DEF Close, Run
    <2>3. r.cmd = cmd /\ Listed(r) = SoFar(pc, cmd, keys, vals)
      <3>1. r.cmd = cmd /\ r.keys = keys /\ r.vals = vals
        BY <2>1
      <3>2. QED
        BY <1>0, <3>1, ListedIs
    <2>4. text[pos] \in Closers
      BY <1>0, <1>3, IsFacts
    <2>5. SubSeq(text, from, pos - 1) = w.text \o Listed(r)
      BY <1>1, <2>3 DEF At
    <2>6. pos' - 1 = pos /\ pos' - 2 = pos - 1
      BY <1>0, <2>2
    <2>7. Listed(run)' = Listed(r)
      BY <2>2 DEF Listed
    <2>8. /\ w.cmd = run'.cmd
          /\ SubSeq(text', from', pos' - 2) = w.text \o Listed(run)'
          /\ text'[pos' - 1] \in Closers
      BY <1>1, <2>2, <2>3, <2>4, <2>5, <2>6, <2>7
    <2>9. Written'
      BY <1>1, <2>8 DEF Written
    <2>10. QED
      BY <2>2, <2>9 DEF ReadInv
  <1>4. QED
    BY <1>2, <1>3

(* A number has no keys, *)
LEMMA ReadParseNumber ==
  ASSUME ListInv, ParseNumber
  PROVE  ReadInv'
  <1>1. cmd \in Commands
    BY DEF ListInv
  <1>2. \A p : Run(p, [Nothing EXCEPT !.cmd = cmd]) =>
                 pc' = "next" /\ run'.keys = <<>>
    BY <1>1, RunFacts DEF Run
  <1>3. \/ \E p : GiveUp(p)
        \/ \E p : Run(p, [Nothing EXCEPT !.cmd = cmd])
    BY Zenon DEF ParseNumber
  <1>4. QED
    BY <1>2, <1>3, GivesUpReading, RunsNoKeys

(* and at the end of the text nothing more is run. *)
LEMMA ReadEnd ==
  ASSUME ReadInv, EndOfCommands
  PROVE  ReadInv'
  <1>1. /\ pc' = "end" /\ pos' = pos /\ text' = text /\ from' = from /\ run' = run
    BY DEF EndOfCommands
  <1>2. Written' <=> Written
    BY <1>1 DEF Written, Listed
  <1>3. QED
    BY <1>1, <1>2 DEF ReadInv

(* No step breaks it. *)
LEMMA ReadKept ==
  ASSUME ListInv, ReadInv, [Next]_vars
  PROVE  ReadInv'
  <1>1. ASSUME UNCHANGED vars PROVE ReadInv'
    <2>1. /\ pc' = pc /\ pos' = pos /\ text' = text /\ from' = from /\ run' = run
          /\ cmd' = cmd /\ keys' = keys /\ vals' = vals
      BY <1>1 DEF vars
    <2>2. Written' <=> Written
      BY <2>1 DEF Written, Listed
    <2>3. SoFar(pc, cmd, keys, vals)' = SoFar(pc, cmd, keys, vals)
      BY <2>1
    <2>4. \A w : At(w.text, pos, SoFar(pc, cmd, keys, vals))' <=>
                   At(w.text, pos, SoFar(pc, cmd, keys, vals))
      BY <2>1, <2>3 DEF At
    <2>5. QED
      BY <2>1, <2>2, <2>4 DEF ReadInv
  <1>2. QED
    BY <1>1, ReadGetNext, ReadEnd, ReadOpen, ReadParsePair, ReadParseKey, ReadClose,
       ReadParseNumber DEF Next

(* A command that is run with keys is what the text says between the call  *)
(* of get_next that began it and the line end that closed it: no key,      *)
(* value or command is made up from parts of a line that was given up.     *)
THEOREM RunsWritten == Spec => []RunsWhatIsWritten
  <1>1. Init => ListInv /\ ReadInv
    <2>1. Init => ReadInv
      <3>1. Init => pc = "next" /\ run = Nothing
        BY DEF Init
      <3>2. QED
        BY <3>1, RunFacts DEF ReadInv
    <2>2. QED
      BY <2>1, InitList
  <1>2. ListInv /\ ReadInv /\ [Next]_vars => ListInv' /\ ReadInv'
    BY ListKept, ReadKept
  <1>3. ReadInv => RunsWhatIsWritten
    <2>1. Written => \E w \in JobWords \cup ConsoleWords :
                       /\ w.cmd = run.cmd
                       /\ SubSeq(text, from, pos - 2) = w.text \o Listed(run)
                       /\ text[pos - 1] \in Closers
      BY Zenon DEF Written, AllWords
    <2>2. QED
      BY <2>1, Zenon DEF ReadInv, RunsWhatIsWritten
  <1>4. QED
    BY <1>1, <1>2, <1>3, PTL DEF Spec
-----------------------------------------------------------------------------
(* Lines in the text *)

(* The text has s at place p. *)
Has(p, s) ==
  /\ p \in Nat \ {0} /\ p + Len(s) - 1 <= Len(text)
  /\ \A j \in 1..Len(s) : text[p + j - 1] = s[j]

(* Of a sequence put together, it has the two parts. *)
LEMMA HasParts ==
  ASSUME NEW S, NEW a \in Seq(S), NEW b \in Seq(S), NEW p, Has(p, a \o b),
         Len(text) \in Nat
  PROVE  Has(p, a) /\ Has(p + Len(a), b)
  <1>1. PICK u : u = a \o b
    OBVIOUS
  <1>2. PICK m \in Nat, n \in Nat : m = Len(a) /\ n = Len(b)
    BY LenProperties
  <1>3. /\ Len(u) = m + n
        /\ \A i \in 1..(m + n) : u[i] = IF i <= m THEN a[i] ELSE b[i - m]
    BY <1>1, <1>2, ConcatProperties
  <1>4. /\ p \in Nat \ {0} /\ p + (m + n) - 1 <= Len(text)
        /\ \A j \in 1..(m + n) : text[p + j - 1] = u[j]
    BY <1>1, <1>3 DEF Has
  <1>5. Has(p, a)
    <2>1. ASSUME NEW j \in 1..m PROVE text[p + j - 1] = a[j]
      <3>1. j \in 1..(m + n) /\ j <= m
        BY <1>2
      <3>2. QED
        BY <1>3, <1>4, <3>1
    <2>2. p + m - 1 <= Len(text)
      BY <1>2, <1>4
    <2>3. QED
      BY <1>2, <1>4, <2>1, <2>2 DEF Has
  <1>6. Has(p + m, b)
    <2>1. ASSUME NEW j \in 1..n PROVE text[(p + m) + j - 1] = b[j]
      <3>1. m + j \in 1..(m + n) /\ ~(m + j <= m) /\ (m + j) - m = j
        BY <1>2
      <3>2. p + (m + j) - 1 = (p + m) + j - 1
        BY <1>2, <1>4
      <3>3. QED
        BY <1>3, <1>4, <3>1, <3>2
    <2>2. p + m \in Nat \ {0} /\ (p + m) + n - 1 <= Len(text)
      BY <1>2, <1>4
    <2>3. QED
      BY <1>2, <2>1, <2>2 DEF Has
  <1>7. QED
    BY <1>2, <1>5, <1>6

(* A character of it. *)
LEMMA HasChar ==
  ASSUME NEW c, NEW p, Has(p, <<c>>), Len(text) \in Nat
  PROVE  p \in 1..Len(text) /\ text[p] = c /\ \A C : Is(p, C) <=> c \in C
  <1>1. Len(<<c>>) = 1 /\ <<c>>[1] = c /\ 1 \in 1..1
    OBVIOUS
  <1>2. p \in Nat \ {0} /\ p + 1 - 1 <= Len(text) /\ text[p + 1 - 1] = c
    BY <1>1 DEF Has
  <1>3. p + 1 - 1 = p
    BY <1>2
  <1>4. QED
    BY <1>2, <1>3 DEF Is

(* The first sequences of a series. *)
FirstOf(s, n) == [j \in 1..n |-> s[j]]

(* Strung together, a series begins with its first sequences. *)
LEMMA FlattenGoesOn ==
  ASSUME NEW s \in Seq(Seq(Sym)), NEW n \in 0..Len(s)
  PROVE  /\ FirstOf(s, n) \in Seq(Seq(Sym)) /\ Len(FirstOf(s, n)) = n
         /\ \E t \in Seq(Sym) : FlattenSeq(s) = FlattenSeq(FirstOf(s, n)) \o t
  <1>0. Len(s) \in Nat /\ \A i \in 1..Len(s) : s[i] \in Seq(Sym)
    BY LenProperties, ElementOfSeq
  <1>1. ASSUME NEW m \in 0..Len(s)
        PROVE  FirstOf(s, m) \in Seq(Seq(Sym)) /\ Len(FirstOf(s, m)) = m
    <2>1. \A i \in 1..m : s[i] \in Seq(Sym)
      BY <1>0
    <2>2. QED
      BY <1>0, <2>1 DEF FirstOf
  <1>2. ASSUME NEW m \in 0..Len(s), m # Len(s)
        PROVE  FlattenSeq(FirstOf(s, m + 1)) = FlattenSeq(FirstOf(s, m)) \o s[m + 1]
    <2>1. PICK p, x : p = FirstOf(s, m) /\ x = s[m + 1]
      OBVIOUS
    <2>2. p \in Seq(Seq(Sym)) /\ Len(p) = m /\ x \in Seq(Sym) /\ m + 1 \in 0..Len(s)
      <3>1. m + 1 \in 1..Len(s)
        BY <1>0, <1>2
      <3>2. QED
        BY <1>0, <1>1, <2>1, <3>1
    <2>3. PICK q : q = Append(p, x)
      OBVIOUS
    <2>4. /\ q \in Seq(Seq(Sym)) /\ Len(q) = m + 1 /\ q[m + 1] = x
          /\ \A i \in 1..m : q[i] = p[i]
      BY <2>2, <2>3, AppendProperties
    <2>5. PICK u : u = FirstOf(s, m + 1) /\ u \in Seq(Seq(Sym)) /\ Len(u) = m + 1
      BY <1>1, <2>2
    <2>6. ASSUME NEW i \in 1..(m + 1) PROVE u[i] = q[i]
      <3>1. u[i] = s[i]
        BY <2>5 DEF FirstOf
      <3>2. CASE i = m + 1
        BY <2>1, <2>4, <3>1, <3>2
      <3>3. CASE i # m + 1
        <4>1. i \in 1..m
          BY <3>3
        <4>2. p[i] = s[i] /\ q[i] = p[i]
          BY <2>1, <2>4, <4>1 DEF FirstOf
        <4>3. QED
          BY <3>1, <4>2
      <3>4. QED
        BY <3>2, <3>3
    <2>7. u = q
      BY <2>4, <2>5, <2>6, SeqEqual
    <2>8. FlattenSeq(q) = FlattenSeq(p) \o x
      BY <2>2, <2>3, FlattenFacts
    <2>9. QED
      BY <2>1, <2>5, <2>7, <2>8
  <1> DEFINE Goes(m) == \E t \in Seq(Sym) : FlattenSeq(s) = FlattenSeq(FirstOf(s, m)) \o t
             Bad == {k \in 0..Len(s) : ~Goes(Len(s) - k)}
  <1>3. Goes(Len(s))
    <2>1. FirstOf(s, Len(s)) = s
      BY <1>0, <1>1, SeqEqual DEF FirstOf
    <2>2. FlattenSeq(s) \in Seq(Sym)
      BY FlattenFacts
    <2>3. FlattenSeq(s) \o <<>> = FlattenSeq(s) /\ <<>> \in Seq(Sym)
      BY <2>2, ConcatEmptySeq, EmptySeq
    <2>4. QED
      BY <2>1, <2>3
  <1>4. ASSUME NEW m \in 0..Len(s), m # Len(s), Goes(m + 1)
        PROVE  Goes(m)
    <2>1. PICK t \in Seq(Sym) : FlattenSeq(s) = FlattenSeq(FirstOf(s, m + 1)) \o t
      BY <1>4
    <2>2. PICK f : f = FlattenSeq(FirstOf(s, m)) /\ f \in Seq(Sym)
      BY <1>1, FlattenFacts
    <2>3. PICK x : x = s[m + 1] /\ x \in Seq(Sym)
      <3>1. m + 1 \in 1..Len(s)
        BY <1>0, <1>4
      <3>2. QED
        BY <1>0, <3>1
    <2>4. FlattenSeq(s) = (f \o x) \o t
      BY <1>2, <1>4, <2>1, <2>2, <2>3
    <2>5. (f \o x) \o t = f \o (x \o t)
      <3>1. Regroups(f, x, t)
        BY <2>2, <2>3, Assoc
      <3>2. QED
        BY <3>1 DEF Regroups
    <2>6. x \o t \in Seq(Sym)
      BY <2>3, ConcatProperties
    <2>7. QED
      BY <2>2, <2>4, <2>5, <2>6
  <1> HIDE DEF Goes
  <1>5. ASSUME Bad # {} PROVE FALSE
    <2>0. Bad \in SUBSET Nat
      BY <1>0
    <2>1. PICK k \in Bad : \A m \in Bad : k <= m
      <3> HIDE DEF Bad
      <3>1. QED
        BY <1>5, <2>0, LeastNumber
    <2>2. k \in 0..Len(s) /\ ~Goes(Len(s) - k)
      OBVIOUS
    <2>3. k # 0
      BY <1>0, <1>3, <2>2
    <2>4. k - 1 \in 0..Len(s) /\ ~(k <= k - 1)
      BY <1>0, <2>2, <2>3
    <2>5. k - 1 \notin Bad
      <3> HIDE DEF Bad
      <3>1. QED
        BY <2>1, <2>4
    <2>6. Goes(Len(s) - (k - 1))
      BY <2>4, <2>5
    <2>7. PICK m : m = Len(s) - k
      OBVIOUS
    <2>8. m \in 0..Len(s) /\ m # Len(s) /\ m + 1 = Len(s) - (k - 1)
      BY <1>0, <2>2, <2>3, <2>7
    <2>9. QED
      BY <1>4, <2>2, <2>6, <2>7, <2>8
  <1>6. Goes(n)
    <2>1. Len(s) - n \in 0..Len(s) /\ Len(s) - (Len(s) - n) = n
      BY <1>0
    <2>2. QED
      BY <1>5, <2>1
  <1>7. QED
    BY <1>1, <1>6 DEF Goes

(* The text is that of the lines. *)
TextInv ==
  /\ who \in Readers /\ lines \in Texts(who)
  /\ text = FlattenSeq([i \in DOMAIN lines |-> lines[i].text])

(* It has line i where LineStart says, and nothing behind a line without a *)
(* line end.                                                               *)
LEMMA LinePlace ==
  ASSUME TextInv, NEW i \in DOMAIN lines, NEW t, t = lines[i].text
  PROVE  /\ t \in Seq(Sym) /\ Len(t) \in Nat \ {0}
         /\ Has(LineStart(i), t)
         /\ t[Len(t)] # NL => LineStart(i) + Len(t) = Len(text) + 1
  <1>1. PICK n \in 1..MaxLines : lines \in [1..n -> Lines[who]]
    BY DEF Texts, TextInv
  <1>2. n \in Nat \ {0} /\ DOMAIN lines = 1..n /\ Len(lines) = n /\ i \in 1..n
    BY <1>1, ReaderAssumption
  <1>3. ASSUME NEW j \in 1..n
        PROVE  lines[j].text \in Seq(Sym) /\ Len(lines[j].text) \in Nat \ {0}
    <2>1. lines[j] \in Lines[who] /\ who \in Readers
      BY <1>1 DEF TextInv
    <2>2. lines[j].text \in Seq(Characters) /\ lines[j].text # <<>>
      BY <2>1, ReaderAssumption
    <2>3. lines[j].text \in Seq(Sym)
      BY <2>2, SeqMonotonic DEF Sym
    <2>4. QED
      BY <2>2, <2>3, EmptySeq
  <1>4. PICK s : s = [j \in 1..n |-> lines[j].text]
    OBVIOUS
  <1>5. s \in Seq(Seq(Sym)) /\ Len(s) = n /\ text = FlattenSeq(s) /\ s[i] = t
    BY <1>2, <1>3, <1>4 DEF TextInv
  <1>6. PICK p, q : p = FirstOf(s, i - 1) /\ q = FirstOf(s, i)
    OBVIOUS
  <1>7. p \in Seq(Seq(Sym)) /\ q \in Seq(Seq(Sym)) /\ Len(p) = i - 1 /\ Len(q) = i
    <2>1. i - 1 \in 0..Len(s) /\ i \in 0..Len(s)
      BY <1>2, <1>5
    <2>2. QED
      BY <1>5, <1>6, <2>1, FlattenGoesOn
  <1>8. q = Append(p, t)
    <2>1. PICK u : u = Append(p, t)
      OBVIOUS
    <2>2. t \in Seq(Sym) /\ i - 1 + 1 = i
      BY <1>2, <1>3, <1>5
    <2>3. /\ u \in Seq(Seq(Sym)) /\ Len(u) = i /\ u[i] = t
          /\ \A j \in 1..(i - 1) : u[j] = p[j]
      BY <1>7, <2>1, <2>2, AppendProperties
    <2>4. ASSUME NEW j \in 1..i PROVE q[j] = u[j]
      <3>1. q[j] = s[j]
        BY <1>6 DEF FirstOf
      <3>2. CASE j = i
        BY <1>5, <2>3, <3>1, <3>2
      <3>3. CASE j # i
        <4>1. j \in 1..(i - 1)
          BY <1>2, <3>3
        <4>2. p[j] = s[j]
          BY <1>6, <4>1 DEF FirstOf
        <4>3. QED
          BY <2>3, <3>1, <4>1, <4>2
      <3>4. QED
        BY <3>2, <3>3
    <2>5. QED
      BY <1>7, <2>1, <2>3, <2>4, SeqEqual
  <1>9. PICK f, g : f = FlattenSeq(p) /\ g = FlattenSeq(q)
    OBVIOUS
  <1>10. t \in Seq(Sym) /\ f \in Seq(Sym) /\ g \in Seq(Sym) /\ g = f \o t
    <2>1. t \in Seq(Sym) /\ p \in Seq(Seq(Sym)) /\ q \in Seq(Seq(Sym))
      BY <1>2, <1>3, <1>5, <1>7
    <2>2. f \in Seq(Sym) /\ g \in Seq(Sym)
      BY <1>9, <2>1, FlattenFacts
    <2>3. FlattenSeq(Append(p, t)) = FlattenSeq(p) \o t
      BY <2>1, FlattenFacts
    <2>4. QED
      BY <1>8, <1>9, <2>1, <2>2, <2>3
  <1>11. PICK l \in Nat : l = Len(f) /\ LineStart(i) = 1 + l
    <2>1. p = [j \in 1..(i - 1) |-> lines[j].text]
      <3>1. \A j \in 1..(i - 1) : s[j] = lines[j].text
        BY <1>2, <1>4
      <3>2. QED
        BY <1>6, <3>1 DEF FirstOf
    <2>2. Len(f) \in Nat
      BY <1>10, LenProperties
    <2>3. QED
      BY <1>9, <2>1, <2>2 DEF LineStart
  <1>12. text \in Seq(Sym) /\ Len(text) \in Nat /\ Len(t) \in Nat \ {0}
    <2>1. text \in Seq(Sym)
      BY <1>5, FlattenFacts
    <2>2. QED
      BY <1>2, <1>3, <1>5, <2>1, LenProperties
  <1>13. Has(LineStart(i), t)
    <2>1. PICK r \in Seq(Sym) : text = g \o r
      <3>1. i \in 0..Len(s)
        BY <1>2, <1>5
      <3>2. QED
        BY <1>5, <1>6, <1>9, <3>1, FlattenGoesOn
    <2>2. Has(1, g \o r)
      <3>1. 1 + Len(text) - 1 = Len(text)
        BY <1>12
      <3>2. \A j \in 1..Len(text) : 1 + j - 1 = j
        BY <1>12
      <3>3. QED
        BY <2>1, <3>1, <3>2 DEF Has
    <2>3. Has(1, f \o t)
      BY <1>10, <1>12, <2>2, HasParts
    <2>4. Has(1 + l, t)
      BY <1>10, <1>11, <1>12, <2>3, HasParts
    <2>5. QED
      BY <1>11, <2>4
  <1>14. ASSUME t[Len(t)] # NL PROVE LineStart(i) + Len(t) = Len(text) + 1
    <2>1. i = n
      <3>1. i # n => i \in 1..(Len(lines) - 1)
        BY <1>2
      <3>2. i \in 1..(Len(lines) - 1) => t[Len(t)] = NL
        BY DEF Texts, TextInv, Last
      <3>3. QED
        BY <1>14, <3>1, <3>2
    <2>2. q = s
      <3>1. \A j \in 1..n : q[j] = s[j]
        BY <1>6, <2>1 DEF FirstOf
      <3>2. /\ q \in Seq(Seq(Sym)) /\ s \in Seq(Seq(Sym)) /\ Len(q) = Len(s)
            /\ \A j \in 1..Len(q) : q[j] = s[j]
        BY <1>5, <1>7, <2>1, <3>1
      <3>3. QED
        BY <3>2, SeqEqual
    <2>3. text = f \o t
      BY <1>5, <1>9, <1>10, <2>2
    <2>4. Len(text) = Len(f) + Len(t)
      BY <1>10, <2>3, ConcatProperties
    <2>5. PICK m \in Nat, k \in Nat : m = Len(t) /\ k = Len(text)
      BY <1>12
    <2>6. LineStart(i) = 1 + l /\ k = l + m
      <3>1. LineStart(i) = 1 + l /\ Len(f) = l
        BY <1>11
      <3>2. k = Len(f) + m
        BY <2>4, <2>5
      <3>3. QED
        BY <3>1, <3>2
    <2>7. l \in Nat /\ m \in Nat
      BY <1>11, <2>5
    <2>8. \A a \in Nat, b \in Nat : (1 + a) + b = (a + b) + 1
      OBVIOUS
    <2>9. (1 + l) + m = (l + m) + 1
      BY <2>7, <2>8, Zenon
    <2>10. QED
      BY <2>5, <2>6, <2>9, Zenon
  <1>15. QED
    BY <1>10, <1>12, <1>13, <1>14

(* The text is a text, and stays one. *)
LEMMA TextKept ==
  ASSUME TextInv, [Next]_vars
  PROVE  TextInv' /\ \A i \in DOMAIN lines : LineStart(i)' = LineStart(i)
  <1>1. who' = who /\ lines' = lines /\ text' = text
    BY SameText
  <1>2. QED
    BY <1>1 DEF TextInv, LineStart
-----------------------------------------------------------------------------
(* What the characters of a text make the reader do *)

(* A word, by its command, its first two letters and whether it stands bare. *)
Spelt(w, cmd_, one, two, bare) ==
  /\ w.cmd = cmd_ /\ w.text[1] = one /\ w.text[2] = two
  /\ w.bare = bare /\ Len(w.text) >= 2

(* The words of job files, *)
LEMMA TheJobWords ==
  \E a, b, c, d, e, f, g :
    /\ JobWords = {a, b, c, d, e, f, g}
    /\ Spelt(a, "WRITE", "W", "R", FALSE) /\ Spelt(b, "WAIT", "W", "A", FALSE)
    /\ Spelt(c, "READ", "R", "E", FALSE) /\ Spelt(d, "DELETE", "D", "E", FALSE)
    /\ Spelt(e, "SHOW", "S", "H", TRUE) /\ Spelt(f, "BACKUP", "B", "A", TRUE)
    /\ Spelt(g, "HELP", "H", "E", TRUE)
  <1>1. PICK a : a = Word(<<"W", "R", "I", "T", "E", Blank>>, "WRITE", FALSE)
    OBVIOUS
  <1>2. PICK b : b = Word(<<"W", "A", "I", "T", Blank>>, "WAIT", FALSE)
    OBVIOUS
  <1>3. PICK c : c = Word(<<"R", "E", "A", "D", Blank>>, "READ", FALSE)
    OBVIOUS
  <1>4. PICK d : d = Word(<<"D", "E", "L", "E", "T", "E", Blank>>, "DELETE", FALSE)
    OBVIOUS
  <1>5. PICK e : e = Word(<<"S", "H", "O", "W">>, "SHOW", TRUE)
    OBVIOUS
  <1>6. PICK f : f = Word(<<"B", "A", "C", "K", "U", "P">>, "BACKUP", TRUE)
    OBVIOUS
  <1>7. PICK g : g = Word(<<"H", "E", "L", "P">>, "HELP", TRUE)
    OBVIOUS
  <1>8. JobWords = {a, b, c, d, e, f, g}
    BY <1>1, <1>2, <1>3, <1>4, <1>5, <1>6, <1>7, Zenon DEF JobWords
  <1>9. Spelt(a, "WRITE", "W", "R", FALSE) /\ Spelt(b, "WAIT", "W", "A", FALSE)
    BY <1>1, <1>2 DEF Spelt, Word
  <1>10. Spelt(c, "READ", "R", "E", FALSE) /\ Spelt(d, "DELETE", "D", "E", FALSE)
    BY <1>3, <1>4 DEF Spelt, Word
  <1>11. Spelt(e, "SHOW", "S", "H", TRUE) /\ Spelt(f, "BACKUP", "B", "A", TRUE)
    BY <1>5, <1>6 DEF Spelt, Word
  <1>12. Spelt(g, "HELP", "H", "E", TRUE)
    BY <1>7 DEF Spelt, Word
  <1>13. QED
    BY <1>8, <1>9, <1>10, <1>11, <1>12

(* and those of the console. *)
LEMMA TheConsoleWords ==
  \E a, b, c, d :
    /\ ConsoleWords = {a, b, c, d}
    /\ Spelt(a, "SUBSCRIBE", "S", "U", FALSE) /\ Spelt(b, "UNSUBSCRIBE", "U", "N", FALSE)
    /\ Spelt(c, "DELAY", "D", "E", FALSE) /\ Spelt(d, "DISCONNECT", "D", "I", TRUE)
  <1>1. PICK a : a = Word(<<"S", "U", "B", "S", "C", "R", "I", "B", "E", Blank>>,
                          "SUBSCRIBE", FALSE)
    OBVIOUS
  <1>2. PICK b : b = Word(<<"U", "N", "S", "U", "B", "S", "C", "R", "I", "B", "E", Blank>>,
                          "UNSUBSCRIBE", FALSE)
    OBVIOUS
  <1>3. PICK c : c = Word(<<"D", "E", "L", "A", "Y", Blank>>, "DELAY", FALSE)
    OBVIOUS
  <1>4. PICK d : d = Word(<<"D", "I", "S", "C", "O", "N", "N", "E", "C", "T">>,
                          "DISCONNECT", TRUE)
    OBVIOUS
  <1>5. ConsoleWords = {a, b, c, d}
    BY <1>1, <1>2, <1>3, <1>4, Zenon DEF ConsoleWords
  <1>6. Spelt(a, "SUBSCRIBE", "S", "U", FALSE) /\ Spelt(b, "UNSUBSCRIBE", "U", "N", FALSE)
    BY <1>1, <1>2 DEF Spelt, Word
  <1>7. Spelt(c, "DELAY", "D", "E", FALSE) /\ Spelt(d, "DISCONNECT", "D", "I", TRUE)
    BY <1>3, <1>4 DEF Spelt, Word
  <1>8. QED
    BY <1>5, <1>6, <1>7

(* Two letters tell the words of a reader apart, *)
LEMMA TwoLetters ==
  ASSUME NEW r \in Readers, NEW v \in WordsOf(r), NEW w \in WordsOf(r),
         v.text[1] = w.text[1], v.text[2] = w.text[2]
  PROVE  v = w
  <1>1. ASSUME v \in JobWords, w \in JobWords PROVE v = w
    <2>1. PICK a, b, c, d, e, f, g :
                 /\ JobWords = {a, b, c, d, e, f, g}
                 /\ Spelt(a, "WRITE", "W", "R", FALSE) /\ Spelt(b, "WAIT", "W", "A", FALSE)
                 /\ Spelt(c, "READ", "R", "E", FALSE) /\ Spelt(d, "DELETE", "D", "E", FALSE)
                 /\ Spelt(e, "SHOW", "S", "H", TRUE) /\ Spelt(f, "BACKUP", "B", "A", TRUE)
                 /\ Spelt(g, "HELP", "H", "E", TRUE)
      BY TheJobWords
    <2>2. CASE w = a
      BY <1>1, <2>1, <2>2 DEF Spelt
    <2>3. CASE w = b
      BY <1>1, <2>1, <2>3 DEF Spelt
    <2>4. CASE w = c
      BY <1>1, <2>1, <2>4 DEF Spelt
    <2>5. CASE w = d
      BY <1>1, <2>1, <2>5 DEF Spelt
    <2>6. CASE w = e
      BY <1>1, <2>1, <2>6 DEF Spelt
    <2>7. CASE w = f
      BY <1>1, <2>1, <2>7 DEF Spelt
    <2>8. CASE w = g
      BY <1>1, <2>1, <2>8 DEF Spelt
    <2>9. QED
      BY <1>1, <2>1, <2>2, <2>3, <2>4, <2>5, <2>6, <2>7, <2>8
  <1>2. ASSUME v \in ConsoleWords, w \in ConsoleWords PROVE v = w
    BY <1>2, TheConsoleWords DEF Spelt
  <1>3. QED
    BY <1>1, <1>2, Zenon DEF WordsOf

(* The commands of job files tell their words apart, *)
LEMMA JobCommands ==
  ASSUME NEW w \in JobWords
  PROVE  /\ \A v \in JobWords : v.cmd = w.cmd => v = w
         /\ Len(w.text) >= 2 /\ (w.cmd \in {"WAIT", "DELAY"} => ~w.bare)
         /\ w.cmd \in {"WRITE", "WAIT", "READ", "DELETE", "SHOW", "BACKUP", "HELP"}
  <1>1. PICK a, b, c, d, e, f, g :
            /\ JobWords = {a, b, c, d, e, f, g}
            /\ Spelt(a, "WRITE", "W", "R", FALSE) /\ Spelt(b, "WAIT", "W", "A", FALSE)
            /\ Spelt(c, "READ", "R", "E", FALSE) /\ Spelt(d, "DELETE", "D", "E", FALSE)
            /\ Spelt(e, "SHOW", "S", "H", TRUE) /\ Spelt(f, "BACKUP", "B", "A", TRUE)
            /\ Spelt(g, "HELP", "H", "E", TRUE)
    BY TheJobWords
  <1>2. CASE w = a
    BY <1>1, <1>2 DEF Spelt
  <1>3. CASE w = b
    BY <1>1, <1>3 DEF Spelt
  <1>4. CASE w = c
    BY <1>1, <1>4 DEF Spelt
  <1>5. CASE w = d
    BY <1>1, <1>5 DEF Spelt
  <1>6. CASE w = e
    BY <1>1, <1>6 DEF Spelt
  <1>7. CASE w = f
    BY <1>1, <1>7 DEF Spelt
  <1>8. CASE w = g
    BY <1>1, <1>8 DEF Spelt
  <1>9. QED
    BY <1>1, <1>2, <1>3, <1>4, <1>5, <1>6, <1>7, <1>8

(* and none of them is one of the console. *)
LEMMA CommandsApart ==
  ASSUME NEW v \in JobWords, NEW w \in ConsoleWords
  PROVE  v.cmd # w.cmd
  <1>1. w.cmd \in {"SUBSCRIBE", "UNSUBSCRIBE", "DELAY", "DISCONNECT"}
    BY TheConsoleWords DEF Spelt
  <1>2. QED
    BY <1>1, JobCommands

(* and so does the command; words have two letters, no line end in them,   *)
(* and those a number follows do not stand bare.                           *)
LEMMA WordsApart ==
  ASSUME NEW w \in AllWords
  PROVE  /\ \A v \in AllWords : v.cmd = w.cmd => v = w
         /\ Len(w.text) >= 2 /\ w.text \in Seq(Sym)
         /\ \A j \in 1..Len(w.text) : w.text[j] \notin {"#", NL}
         /\ w.cmd \in {"WAIT", "DELAY"} => ~w.bare
  <1> DEFINE Apart == \A v \in AllWords : v.cmd = w.cmd => v = w
             Long == Len(w.text) >= 2 /\ (w.cmd \in {"WAIT", "DELAY"} => ~w.bare)
  <1>1. ASSUME w \in JobWords PROVE Apart
    <2>1. \A v \in JobWords : v.cmd = w.cmd => v = w
      BY <1>1, JobCommands, Zenon
    <2>2. \A v \in ConsoleWords : v.cmd # w.cmd
      BY <1>1, CommandsApart
    <2>3. QED
      BY <2>1, <2>2 DEF AllWords
  <1>2. ASSUME w \in ConsoleWords PROVE Apart
    <2>1. \A v \in ConsoleWords : v.cmd = w.cmd => v = w
      BY <1>2, TheConsoleWords DEF Spelt
    <2>2. \A v \in JobWords : v.cmd # w.cmd
      BY <1>2, CommandsApart
    <2>3. QED
      BY <2>1, <2>2 DEF AllWords
  <1>3. Long
    <2>1. w \in JobWords => Long
      BY JobCommands
    <2>2. w \in ConsoleWords => Long
      BY TheConsoleWords DEF Spelt
    <2>3. QED
      BY <2>1, <2>2 DEF AllWords
  <1>4. w.text \in Seq(Letters)
    BY WordFacts
  <1>5. \A j \in 1..Len(w.text) : w.text[j] \in Letters
    BY <1>4, ElementOfSeq
  <1>6. "#" \notin Letters /\ NL \notin Letters
    BY DEF Letters, NL, Blank
  <1>7. \A j \in 1..Len(w.text) : w.text[j] \notin {"#", NL}
    BY <1>5, <1>6
  <1>8. w.text \in Seq(Sym)
    BY <1>4, SeqMonotonic DEF Sym
  <1> HIDE DEF Apart
  <1>9. Apart
    BY <1>1, <1>2 DEF AllWords
  <1>10. QED
    BY <1>3, <1>7, <1>8, <1>9 DEF Apart

(* get_next() takes the word the text has. *)
LEMMA TheWord ==
  ASSUME who \in Readers, text \in Seq(Sym), NEW w \in WordsOf(who), Has(pos, w.text)
  PROVE  Matching = {w} /\ ~Is(pos, {"#", NL}) /\ pos <= Len(text)
  <1>0. Len(text) \in Nat /\ w \in AllWords
    BY LenProperties DEF WordsOf, AllWords
  <1>1. PICK t, n : t = w.text /\ n = Len(t)
    OBVIOUS
  <1>2. /\ t \in Seq(Sym) /\ n \in Nat /\ n >= 2
        /\ \A j \in 1..n : t[j] \notin {"#", NL}
    BY <1>0, <1>1, WordsApart, LenProperties
  <1>3. /\ pos \in Nat \ {0} /\ pos + n - 1 <= Len(text)
        /\ \A j \in 1..n : text[pos + j - 1] = t[j]
    BY <1>1 DEF Has
  <1>4. text[pos] = t[1] /\ text[pos + 1] = t[2] /\ pos + 1 <= Len(text)
    <2>1. 1 \in 1..n /\ 2 \in 1..n /\ pos + 1 - 1 = pos /\ pos + 2 - 1 = pos + 1
      BY <1>2, <1>3
    <2>2. QED
      BY <1>0, <1>2, <1>3, <2>1
  <1>5. \A C : Is(pos, C) <=> t[1] \in C
    BY <1>0, <1>3, <1>4 DEF Is
  <1>6. PICK r : r = SubSeq(text, pos, Len(text))
    OBVIOUS
  <1>7. /\ r \in Seq(Sym) /\ Len(r) = Len(text) - pos + 1
        /\ \A j \in 1..(Len(text) - pos + 1) : r[j] = text[pos + j - 1]
    <2>1. \A j \in pos..Len(text) : text[j] \in Sym
      <3>1. \A j \in 1..Len(text) : text[j] \in Sym
        BY ElementOfSeq
      <3>2. QED
        BY <1>0, <1>3, <3>1
    <2>2. pos \in Int /\ Len(text) \in Int /\ pos <= Len(text)
      BY <1>0, <1>3, <1>4
    <2>3. QED
      BY <1>6, <2>1, <2>2, SubSeqProperties
  <1>8. w \in Matching
    <2>1. n <= Len(r)
      BY <1>0, <1>2, <1>3, <1>7
    <2>2. SubSeq(t, 1, n) = SubSeq(r, 1, n)
      <3>1. \A j \in 1..n : t[j] \in Sym /\ r[j] \in Sym /\ t[j] = r[j]
        <4>1. \A j \in 1..n : j \in 1..(Len(text) - pos + 1)
          BY <1>0, <1>2, <1>3
        <4>2. \A j \in 1..n : t[j] \in Sym
          BY <1>1, <1>2, ElementOfSeq
        <4>3. QED
          BY <1>3, <1>7, <4>1, <4>2
      <3>2. PICK a, b : a = SubSeq(t, 1, n) /\ b = SubSeq(r, 1, n)
        OBVIOUS
      <3>3. n \in Int /\ 1 \in Int /\ 1 <= n /\ n - 1 + 1 = n /\ \A j \in 1..n : 1 + j - 1 = j
        BY <1>2
      <3>4. a \in Seq(Sym) /\ Len(a) = n /\ \A j \in 1..n : a[j] = t[j]
        BY <3>1, <3>2, <3>3, SubSeqProperties
      <3>5. b \in Seq(Sym) /\ Len(b) = n /\ \A j \in 1..n : b[j] = r[j]
        BY <3>1, <3>2, <3>3, SubSeqProperties
      <3>6. a = b
        BY <3>1, <3>4, <3>5, SeqEqual
      <3>7. QED
        BY <3>2, <3>6
    <2>3. IsPrefix(t, r)
      BY <1>1, <2>1, <2>2 DEF IsPrefix
    <2>4. QED
      BY <1>1, <1>5, <1>6, <2>3 DEF Matching, Words
  <1>9. ASSUME NEW v \in Matching PROVE v = w
    <2>1. v \in WordsOf(who) /\ v \in AllWords /\ IsPrefix(v.text, r)
      BY <1>6 DEF Matching, Words, WordsOf, AllWords
    <2>2. PICK u, k : u = v.text /\ k = Len(u)
      OBVIOUS
    <2>3. u \in Seq(Sym) /\ k \in Nat /\ k >= 2
      BY <2>1, <2>2, WordsApart, LenProperties
    <2>4. k <= Len(r) /\ SubSeq(u, 1, k) = SubSeq(r, 1, k)
      BY <2>1, <2>2 DEF IsPrefix
    <2>5. /\ \A j \in 1..k : SubSeq(u, 1, k)[j] = u[j]
          /\ \A j \in 1..k : SubSeq(r, 1, k)[j] = r[j]
      <3>1. \A j \in 1..k : u[j] \in Sym /\ r[j] \in Sym
        <4>1. \A j \in 1..k : j \in 1..Len(r)
          BY <1>0, <1>3, <1>7, <2>3, <2>4
        <4>2. QED
          BY <1>7, <2>2, <2>3, <4>1, ElementOfSeq
      <3>2. k \in Int /\ 1 \in Int /\ 1 <= k /\ k - 1 + 1 = k /\ \A j \in 1..k : 1 + j - 1 = j
        BY <2>3
      <3>3. QED
        BY <3>1, <3>2, SubSeqProperties
    <2>6. u[1] = r[1] /\ u[2] = r[2]
      <3>1. 1 \in 1..k /\ 2 \in 1..k
        BY <2>3
      <3>2. PICK x, y : x = SubSeq(u, 1, k) /\ y = SubSeq(r, 1, k)
        OBVIOUS
      <3>3. x = y /\ (\A j \in 1..k : x[j] = u[j]) /\ (\A j \in 1..k : y[j] = r[j])
        BY <2>4, <2>5, <3>2
      <3>4. QED
        BY <3>1, <3>3
    <2>7. r[1] = text[pos] /\ r[2] = text[pos + 1]
      <3>1. 1 \in 1..(Len(text) - pos + 1) /\ 2 \in 1..(Len(text) - pos + 1)
            /\ pos + 1 - 1 = pos /\ pos + 2 - 1 = pos + 1
        BY <1>0, <1>3, <1>4
      <3>2. QED
        BY <1>7, <3>1
    <2>8. QED
      BY <1>1, <1>4, <2>1, <2>2, <2>6, <2>7, TwoLetters
  <1>10. t[1] \notin {"#", NL}
    BY <1>2
  <1>11. pos <= Len(text)
    BY <1>0, <1>3, <1>4
  <1>12. Matching = {w}
    BY <1>8, <1>9
  <1>13. QED
    BY <1>5, <1>10, <1>11, <1>12

(* cleanup() goes behind the only line end, *)
LEMMA CleanupAt ==
  ASSUME text \in Seq(Sym), NEW p \in Nat \ {0}, NEW q \in p..Len(text),
         text[q] = NL, \A j \in p..(q - 1) : text[j] # NL
  PROVE  Cleanup(p) = q + 1
  <1> DEFINE ends == {i \in p..Len(text) : text[i] = NL}
  <1>0. Len(text) \in Nat
    BY LenProperties
  <1>1. Cleanup(p) = IF ends = {} THEN Len(text) + 1 ELSE Min(ends) + 1
    BY DEF Cleanup
  <1>2. q \in ends /\ ends \in SUBSET Nat
    BY <1>0
  <1>3. \A j \in ends : q <= j
    BY <1>0
  <1> HIDE DEF ends
  <1>4. PICK m : m = Min(ends)
    OBVIOUS
  <1>5. m \in ends /\ m <= q
    BY <1>2, <1>4, MinFacts
  <1>6. m = q
    BY <1>0, <1>2, <1>3, <1>5
  <1>7. QED
    BY <1>1, <1>2, <1>4, <1>6

(* or to the end of the text if there is none. *)
LEMMA CleanupNone ==
  ASSUME text \in Seq(Sym), NEW p, \A j \in p..Len(text) : text[j] # NL
  PROVE  Cleanup(p) = Len(text) + 1
  BY DEF Cleanup

(* read_string() takes a string that fits, up to the character behind it. *)
LEMMA StringAt ==
  ASSUME text \in Seq(Sym), NEW p \in 1..(Len(text) + 1), NEW s \in Strings, Has(p, s),
         NEW q, q = p + Len(s), q <= Len(text), text[q] \in {Comma, ")", "]"}
  PROVE  ReadString(p) = [value |-> IF text[q] = Comma THEN 0
                                    ELSE IF text[q] = ")" THEN 1 ELSE 2,
                          str |-> s, pos |-> q + 1]
  <1>0. Len(text) \in Nat /\ MaxString \in Nat \ {0} /\ p \in Nat \ {0}
    BY LenProperties, ReaderAssumption
  <1>1. s \in Seq(Characters) /\ \A j \in DOMAIN s : s[j] \notin {Blank, Comma, ")", "]"}
    BY DEF Strings
  <1>2. PICK n \in Nat : n = Len(s) /\ DOMAIN s = 1..n /\ n < MaxString
    BY <1>1, LenProperties DEF Strings
  <1>3. s \in Seq(Sym)
    BY <1>1, SeqMonotonic DEF Sym
  <1>4. /\ q = p + n /\ q \in p..Len(text) /\ q \in Nat
        /\ \A j \in 1..n : text[p + j - 1] = s[j]
    BY <1>0, <1>2 DEF Has
  <1>5. \A i \in p..(q - 1) : text[i] \notin {Blank, Comma, ")", "]"}
    <2>1. ASSUME NEW i \in p..(q - 1) PROVE text[i] = s[i - p + 1] /\ i - p + 1 \in 1..n
      <3>1. i - p + 1 \in 1..n /\ p + (i - p + 1) - 1 = i
        BY <1>0, <1>4
      <3>2. QED
        BY <1>4, <3>1
    <2>2. QED
      BY <1>1, <1>2, <2>1
  <1> DEFINE stops == {i \in p..Past(p + MaxString - 1) : Is(i, {Blank, Comma, ")", "]"})}
  <1>6. PICK m : m = Min(stops)
    OBVIOUS
  <1>7. ReadString(p) =
          IF stops = {} \/ Is(m, {Blank})
          THEN [value |-> -1, str |-> <<>>,
                pos |-> IF stops = {} THEN Past(p + MaxString) ELSE m + 1]
          ELSE [value |-> IF Is(m, {Comma}) THEN 0 ELSE IF Is(m, {")"}) THEN 1 ELSE 2,
                str |-> SubSeq(text, p, m - 1), pos |-> m + 1]
    BY <1>6 DEF ReadString, Stops
  <1>8. q \in stops /\ stops \in SUBSET Nat
    <2>1. Past(p + MaxString - 1) \in Nat /\ q <= Past(p + MaxString - 1)
      BY <1>0, <1>2, <1>4 DEF Past
    <2>2. Is(q, {Blank, Comma, ")", "]"})
      BY <1>4 DEF Is
    <2>3. QED
      BY <1>0, <1>4, <2>1, <2>2
  <1>9. \A i \in stops : q <= i
    <2>1. \A i \in stops : i \in Nat /\ p <= i /\ text[i] \in {Blank, Comma, ")", "]"}
      BY <1>0, <1>8 DEF Is
    <2>2. QED
      BY <1>0, <1>4, <1>5, <2>1
  <1> HIDE DEF stops
  <1>10. m \in stops /\ m <= q
    BY <1>6, <1>8, MinFacts
  <1>11. m = q
    BY <1>4, <1>8, <1>9, <1>10
  <1>12. \A C : Is(m, C) <=> text[q] \in C
    BY <1>4, <1>11 DEF Is
  <1>13. ~Is(m, {Blank})
    BY <1>12, Marks
  <1>14. ReadString(p) =
           [value |-> IF Is(m, {Comma}) THEN 0 ELSE IF Is(m, {")"}) THEN 1 ELSE 2,
            str |-> SubSeq(text, p, m - 1), pos |-> m + 1]
    BY <1>7, <1>8, <1>13
  <1>15. SubSeq(text, p, q - 1) = s
    <2>1. PICK u : u = SubSeq(text, p, q - 1)
      OBVIOUS
    <2>2. \A i \in p..(q - 1) : text[i] \in Sym
      <3>1. \A i \in p..(q - 1) : i \in 1..Len(text)
        BY <1>0, <1>4
      <3>2. QED
        BY <3>1, ElementOfSeq
    <2>3. p \in Int /\ q - 1 \in Int
      BY <1>0, <1>4
    <2>4. /\ u \in Seq(Sym) /\ Len(u) = IF p <= q - 1 THEN (q - 1) - p + 1 ELSE 0
          /\ \A j \in 1..((q - 1) - p + 1) : u[j] = text[p + j - 1]
      BY <2>1, <2>2, <2>3, SubSeqProperties
    <2>5. Len(u) = n /\ (q - 1) - p + 1 = n
      BY <1>0, <1>2, <1>4, <2>4
    <2>6. \A j \in 1..n : u[j] = s[j]
      BY <1>4, <2>4, <2>5
    <2>7. QED
      BY <1>2, <1>3, <2>1, <2>4, <2>5, <2>6, SeqEqual
  <1>16. (Is(m, {Comma}) <=> text[q] = Comma) /\ (Is(m, {")"}) <=> text[q] = ")")
    BY <1>12
  <1>17. QED
    BY <1>11, <1>14, <1>15, <1>16

(* read_uint() takes the digits. *)
LEMMA NumberAt ==
  ASSUME text \in Seq(Sym), NEW p \in Nat \ {0}, NEW q \in p..Len(text),
         \A j \in p..(q - 1) : text[j] \in ToSet(Digits), text[q] \notin ToSet(Digits)
  PROVE  ReadUint(p) = [value |-> ValueOf(SubSeq(text, p, q - 1)), last |-> q,
                        pos |-> q + 1]
  <1> DEFINE stops == {i \in p..(Len(text) + 1) : ~Is(i, ToSet(Digits))}
  <1>0. Len(text) \in Nat
    BY LenProperties
  <1>1. q \in stops /\ stops \in SUBSET Nat
    BY <1>0 DEF Is
  <1>2. \A j \in stops : q <= j
    BY <1>0 DEF Is
  <1>3. PICK m : m = Min(stops)
    OBVIOUS
  <1>4. ReadUint(p) = [value |-> ValueOf(SubSeq(text, p, m - 1)), last |-> m,
                       pos |-> Past(m + 1)]
    BY <1>3 DEF ReadUint
  <1> HIDE DEF stops
  <1>5. m \in stops /\ m <= q
    BY <1>1, <1>3, MinFacts
  <1>6. m = q
    BY <1>0, <1>1, <1>2, <1>5
  <1>7. Past(q + 1) = q + 1
    BY <1>0 DEF Past
  <1>8. QED
    BY <1>4, <1>6, <1>7

(* None of the characters that end a number is a digit. *)
LEMMA NoDigits ==
  /\ NL \notin ToSet(Digits) /\ "NUL" \notin ToSet(Digits) /\ Blank \notin ToSet(Digits)
  /\ Blank \notin Closers
  <1>1. ToSet(Digits) \subseteq {"0", "1", "2", "3", "4", "5", "6", "7", "8", "9"}
    BY DEF ToSet, Digits
  <1>2. QED
    BY <1>1 DEF NL, Blank, Closers
-----------------------------------------------------------------------------
(* Lists in the text *)

(* Where item n + 1 begins, of a list with its "[" at p. *)
ItemStart(p, I, n) == p + 1 + Len(FlattenSeq(FirstOf(I, n)))

(* Each item stands behind the one before it, and the "]" behind the last. *)
LEMMA ItemStands ==
  ASSUME text \in Seq(Sym), NEW I \in Seq(Seq(Sym)), NEW p,
         Has(p, (<<"[">> \o FlattenSeq(I)) \o <<"]">>), NEW n \in 0..Len(I)
  PROVE  /\ Has(p, <<"[">>) /\ ItemStart(p, I, 0) = p + 1 /\ ItemStart(p, I, n) \in Nat \ {0}
         /\ n # Len(I) => /\ Has(ItemStart(p, I, n), I[n + 1])
                          /\ ItemStart(p, I, n + 1) = ItemStart(p, I, n) + Len(I[n + 1])
         /\ n = Len(I) => Has(ItemStart(p, I, n), <<"]">>)
  <1>0. Len(text) \in Nat /\ Len(I) \in Nat /\ p \in Nat \ {0}
    BY LenProperties DEF Has
  <1>1. PICK F : F = FlattenSeq(I) /\ F \in Seq(Sym)
    BY FlattenFacts
  <1>2. PICK L : L = <<"[">> /\ L \in Seq(Sym) /\ Len(L) = 1
    <2>1. <<"[">> \in Seq(Sym)
      BY MarkSeqs
    <2>2. Len(<<"[">>) = 1
      OBVIOUS
    <2>3. QED
      BY <2>1, <2>2
  <1>3. L \o F \in Seq(Sym) /\ Len(L \o F) = 1 + Len(F) /\ Len(F) \in Nat
    BY <1>1, <1>2, ConcatProperties, LenProperties
  <1>4. Has(p, L \o F) /\ Has(p + (1 + Len(F)), <<"]">>)
    BY <1>0, <1>1, <1>2, <1>3, MarkSeqs, HasParts
  <1>5. Has(p, L) /\ Has(p + 1, F)
    BY <1>0, <1>1, <1>2, <1>4, HasParts
  <1>6. ASSUME NEW k \in 0..Len(I)
        PROVE  /\ FirstOf(I, k) \in Seq(Seq(Sym)) /\ Len(FirstOf(I, k)) = k
               /\ FlattenSeq(FirstOf(I, k)) \in Seq(Sym)
               /\ Len(FlattenSeq(FirstOf(I, k))) \in Nat
               /\ Has(p + 1, FlattenSeq(FirstOf(I, k)))
    <2>1. /\ FirstOf(I, k) \in Seq(Seq(Sym)) /\ Len(FirstOf(I, k)) = k
          /\ \E t \in Seq(Sym) : FlattenSeq(I) = FlattenSeq(FirstOf(I, k)) \o t
      BY FlattenGoesOn
    <2>2. FlattenSeq(FirstOf(I, k)) \in Seq(Sym)
      BY <2>1, FlattenFacts
    <2>3. Has(p + 1, FlattenSeq(FirstOf(I, k)))
      BY <1>0, <1>1, <1>5, <2>1, <2>2, HasParts
    <2>4. QED
      BY <2>1, <2>2, <2>3, LenProperties
  <1>7. ItemStart(p, I, 0) = p + 1
    <2>1. 0 \in 0..Len(I)
      BY <1>0
    <2>2. FirstOf(I, 0) = <<>>
      BY <1>6, <2>1, EmptySeq
    <2>3. FlattenSeq(<<>>) = <<>> /\ Len(<<>>) = 0
      BY FlattenIs
    <2>4. QED
      BY <1>0, <2>2, <2>3 DEF ItemStart
  <1>8. ItemStart(p, I, n) \in Nat \ {0}
    BY <1>0, <1>6 DEF ItemStart
  <1>9. ASSUME n # Len(I)
        PROVE  /\ Has(ItemStart(p, I, n), I[n + 1])
               /\ ItemStart(p, I, n + 1) = ItemStart(p, I, n) + Len(I[n + 1])
    <2>1. n \in Nat /\ n + 1 \in 1..Len(I) /\ n + 1 \in 0..Len(I)
      BY <1>0, <1>9
    <2>2. PICK x : x = I[n + 1] /\ x \in Seq(Sym) /\ Len(x) \in Nat
      BY <2>1, ElementOfSeq, LenProperties
    <2>3. PICK a, b : a = FirstOf(I, n) /\ b = FirstOf(I, n + 1)
      OBVIOUS
    <2>4. a \in Seq(Seq(Sym)) /\ b \in Seq(Seq(Sym)) /\ Len(a) = n /\ Len(b) = n + 1
      BY <1>6, <2>1, <2>3
    <2>5. b = Append(a, x)
      <3>1. PICK u : u = Append(a, x)
        OBVIOUS
      <3>2. /\ u \in Seq(Seq(Sym)) /\ Len(u) = n + 1 /\ u[n + 1] = x
            /\ \A j \in 1..n : u[j] = a[j]
        BY <2>2, <2>4, <3>1, AppendProperties
      <3>3. ASSUME NEW j \in 1..(n + 1) PROVE b[j] = u[j]
        <4>1. b[j] = I[j]
          BY <2>3 DEF FirstOf
        <4>2. CASE j = n + 1
          BY <2>2, <3>2, <4>1, <4>2
        <4>3. CASE j # n + 1
          <5>1. j \in 1..n
            BY <2>1, <4>3
          <5>2. a[j] = I[j]
            BY <2>3, <5>1 DEF FirstOf
          <5>3. QED
            BY <3>2, <4>1, <5>1, <5>2
        <4>4. QED
          BY <4>2, <4>3
      <3>4. QED
        BY <2>4, <3>1, <3>2, <3>3, SeqEqual
    <2>6. PICK f, g : f = FlattenSeq(a) /\ g = FlattenSeq(b)
      OBVIOUS
    <2>7. g = f \o x /\ f \in Seq(Sym)
      BY <2>2, <2>4, <2>5, <2>6, FlattenFacts
    <2>8. PICK m \in Nat, k \in Nat : m = Len(f) /\ k = Len(x) /\ Len(g) = m + k
      BY <2>2, <2>7, ConcatProperties, LenProperties
    <2>9. Has(p + 1, f \o x)
      BY <1>6, <2>1, <2>3, <2>6, <2>7
    <2>10. Has(p + 1 + Len(f), x)
      BY <1>0, <2>2, <2>7, <2>9, HasParts
    <2>11. ItemStart(p, I, n) = p + 1 + m /\ ItemStart(p, I, n + 1) = p + 1 + (m + k)
      BY <2>3, <2>6, <2>8 DEF ItemStart
    <2>12. p + 1 + (m + k) = (p + 1 + m) + k
      BY <1>0, <2>8
    <2>13. QED
      BY <2>2, <2>8, <2>10, <2>11, <2>12
  <1>10. ASSUME n = Len(I)
         PROVE  Has(ItemStart(p, I, n), <<"]">>)
    <2>1. FirstOf(I, n) = I
      <3>1. /\ FirstOf(I, n) \in Seq(Seq(Sym)) /\ Len(FirstOf(I, n)) = Len(I)
            /\ \A j \in 1..Len(I) : FirstOf(I, n)[j] = I[j]
        BY <1>0, <1>6, <1>10 DEF FirstOf
      <3>2. QED
        BY <3>1, SeqEqual
    <2>2. ItemStart(p, I, n) = p + 1 + Len(F)
      BY <1>1, <2>1 DEF ItemStart
    <2>3. p + 1 + Len(F) = p + (1 + Len(F))
      BY <1>0, <1>3
    <2>4. QED
      BY <1>4, <2>2, <2>3
  <1>11. QED
    BY <1>2, <1>5, <1>7, <1>8, <1>9, <1>10

(* How long two sequences are together. *)
LEMMA Joined ==
  ASSUME NEW a \in Seq(Sym), NEW b \in Seq(Sym)
  PROVE  a \o b \in Seq(Sym) /\ Len(a \o b) = Len(a) + Len(b)
  BY ConcatProperties

(* A pair, character by character, *)
PairParts(x, k, v, q, m, n) ==
  /\ Len(x) = m + n + 3
  /\ Has(q, <<"(">>) /\ Has(q + 1, k) /\ Has(q + 1 + m, <<Comma>>)
  /\ Has(q + 1 + m + 1, v) /\ Has(q + 1 + m + 1 + n, <<")">>)

(* stands where the pair stands, *)
LEMMA PairAt ==
  ASSUME text \in Seq(Sym), NEW k \in Seq(Sym), NEW v \in Seq(Sym), NEW x,
         x = <<"(">> \o k \o <<Comma>> \o v \o <<")">>, NEW q, Has(q, x),
         NEW m \in Nat, m = Len(k), NEW n \in Nat, n = Len(v)
  PROVE  PairParts(x, k, v, q, m, n)
  <1>0. Len(text) \in Nat
    BY LenProperties
  <1>1. PICK o, d, e : /\ o = <<"(">> /\ d = <<Comma>> /\ e = <<")">>
                       /\ o \in Seq(Sym) /\ d \in Seq(Sym) /\ e \in Seq(Sym)
    BY MarkSeqs
  <1>2. Len(o) = 1 /\ Len(d) = 1 /\ Len(e) = 1
    BY <1>1
  <1>3. PICK a : a = o \o k /\ a \in Seq(Sym) /\ Len(a) = 1 + m
    <2>1. o \o k \in Seq(Sym) /\ Len(o \o k) = Len(o) + Len(k)
      BY <1>1, Joined
    <2>2. QED
      BY <1>2, <2>1
  <1>4. PICK b : b = a \o d /\ b \in Seq(Sym) /\ Len(b) = (1 + m) + 1
    <2>1. a \o d \in Seq(Sym) /\ Len(a \o d) = Len(a) + Len(d)
      BY <1>1, <1>3, Joined
    <2>2. QED
      BY <1>2, <1>3, <2>1
  <1>5. PICK c : c = b \o v /\ c \in Seq(Sym) /\ Len(c) = ((1 + m) + 1) + n
    <2>1. b \o v \in Seq(Sym) /\ Len(b \o v) = Len(b) + Len(v)
      BY <1>4, Joined
    <2>2. QED
      BY <1>4, <2>1
  <1>6. x = c \o e /\ Len(c \o e) = (((1 + m) + 1) + n) + 1
    <2>1. Len(c \o e) = Len(c) + Len(e)
      BY <1>1, <1>5, Joined
    <2>2. x = c \o e
      BY <1>1, <1>3, <1>4, <1>5
    <2>3. QED
      BY <1>2, <1>5, <2>1, <2>2
  <1>7. Has(q, c) /\ Has(q + (((1 + m) + 1) + n), e)
    <2>1. Has(q, c \o e)
      BY <1>6
    <2>2. Has(q, c) /\ Has(q + Len(c), e)
      BY <1>0, <1>1, <1>5, <2>1, HasParts
    <2>3. QED
      BY <1>5, <2>2
  <1>8. Has(q, b) /\ Has(q + ((1 + m) + 1), v)
    BY <1>0, <1>4, <1>5, <1>7, HasParts
  <1>9. Has(q, a) /\ Has(q + (1 + m), d)
    BY <1>0, <1>1, <1>3, <1>4, <1>8, HasParts
  <1>10. Has(q, o) /\ Has(q + 1, k)
    BY <1>0, <1>1, <1>2, <1>3, <1>9, HasParts
  <1>11. q \in Nat
    BY DEF Has
  <1>12. /\ q + (((1 + m) + 1) + n) = q + 1 + m + 1 + n
         /\ q + ((1 + m) + 1) = q + 1 + m + 1 /\ q + (1 + m) = q + 1 + m
         /\ (((1 + m) + 1) + n) + 1 = m + n + 3
    BY <1>11
  <1>13. Has(q, o) /\ Has(q + 1, k) /\ Has(q + 1 + m, d)
    BY <1>9, <1>10, <1>12
  <1>14. Has(q + 1 + m + 1, v) /\ Has(q + 1 + m + 1 + n, e)
    BY <1>7, <1>8, <1>12
  <1>15. Len(x) = m + n + 3
    BY <1>6, <1>12
  <1>16. QED
    BY <1>1, <1>13, <1>14, <1>15 DEF PairParts

(* and a key that is not the first. *)
LEMMA NameAt ==
  ASSUME text \in Seq(Sym), NEW k \in Seq(Sym), NEW q, Has(q, <<Comma>> \o k)
  PROVE  /\ Has(q, <<Comma>>) /\ Has(q + 1, k)
         /\ Len(<<Comma>> \o k) = 1 + Len(k)
  <1>0. Len(text) \in Nat
    BY LenProperties
  <1>1. PICK d : d = <<Comma>> /\ d \in Seq(Sym)
    BY MarkSeqs
  <1>2. Len(d) = 1
    BY <1>1
  <1>3. Has(q, d) /\ Has(q + Len(d), k)
    BY <1>0, <1>1, HasParts
  <1>4. Len(d \o k) = Len(d) + Len(k)
    BY <1>1, ConcatProperties
  <1>5. QED
    BY <1>1, <1>2, <1>3, <1>4

(* A line that is in order, at a place of the text. *)
LineHere(l, a) ==
  /\ who \in Readers /\ text \in Seq(Sym)
  /\ l.text \in Seq(Sym) /\ Len(l.text) \in Nat \ {0} /\ Has(a, l.text)
  /\ l.text[Len(l.text)] # NL => a + Len(l.text) = Len(text) + 1
  /\ InOrder(who, l)

(* The items of such a list, and where it begins. *)
ItemsOf(l) == Items(l.means.cmd, l.means.keys, l.means.vals)

(* A list that is in order has its items in the text, and a line end. *)
LEMMA ListStands ==
  ASSUME NEW l, NEW a, LineHere(l, a), NEW w \in WordsOf(who), ListLine(who, w, l),
         NEW p, p = a + Len(w.text), NEW I, I = ItemsOf(l)
  PROVE  /\ I \in Seq(Seq(Sym)) /\ Len(I) = Len(l.means.keys)
         /\ Has(p, (<<"[">> \o FlattenSeq(I)) \o <<"]">>) /\ Has(a, w.text)
         /\ Is(ItemStart(p, I, Len(I)) + 1, Closers)
         /\ a + Len(l.text) = ItemStart(p, I, Len(I)) + 2
         /\ l.means.keys \in Seq(Seq(Sym))
         /\ w.cmd = "WRITE" => l.means.vals \in Seq(Seq(Sym))
  <1>1. PICK ks, vs, c : ks = l.means.keys /\ vs = l.means.vals /\ c = w.cmd
    OBVIOUS
  <1>2. /\ l.means = [cmd |-> c, keys |-> ks, vals |-> vs]
        /\ ks \in Seq(Strings)
        /\ IF c = "WRITE" THEN vs \in Seq(Strings) /\ Len(vs) = Len(ks) ELSE vs = <<>>
        /\ \E e \in Closers : l.text = w.text \o Listed(l.means) \o <<e>>
    BY <1>1, Zenon DEF ListLine
  <1>3. PICK e \in Closers : l.text = w.text \o Listed(l.means) \o <<e>>
    BY <1>2
  <1>4. Strings \subseteq Seq(Sym)
    <2>1. ASSUME NEW s \in Strings PROVE s \in Seq(Sym)
      <3>1. s \in Seq(Characters)
        BY DEF Strings
      <3>2. QED
        BY <3>1, SeqMonotonic DEF Sym
    <2>2. QED
      BY <2>1
  <1>5. ks \in Seq(Seq(Sym)) /\ (c = "WRITE" => vs \in Seq(Seq(Sym)) /\ Len(vs) = Len(ks))
    BY <1>2, <1>4, SeqMonotonic
  <1>6. I = IF c = "WRITE" THEN Pairs(ks, vs) ELSE Names(ks)
    BY <1>1, <1>2 DEF ItemsOf, Items
  <1>7. I \in Seq(Seq(Sym)) /\ Len(I) = Len(ks)
    <2>1. Len(ks) \in Nat /\ DOMAIN ks = 1..Len(ks)
      BY <1>5, LenProperties
    <2>2. CASE c = "WRITE"
      <3>1. I = Pairs(ks, vs) /\ I \in Seq(Seq(Sym))
        BY <1>5, <1>6, <2>2, PairsAppend, MarkSeqs
      <3>2. QED
        BY <2>1, <3>1, LenProperties DEF Pairs
    <2>3. CASE c # "WRITE"
      <3>1. I = Names(ks) /\ I \in Seq(Seq(Sym))
        BY <1>5, <1>6, <2>3, NamesAppend, MarkSeqs
      <3>2. QED
        BY <2>1, <3>1, LenProperties DEF Names
    <2>4. QED
      BY <2>2, <2>3
  <1>8. PICK B : B = (<<"[">> \o FlattenSeq(I)) \o <<"]">>
    OBVIOUS
  <1>9. Listed(l.means) = B
    <2>1. Listed(l.means) = SoFar("close", c, ks, vs)
      BY <1>2, ListedIs
    <2>2. SoFar("close", c, ks, vs) = (<<"[">> \o FlattenSeq(Items(c, ks, vs))) \o <<"]">>
      BY DEF SoFar
    <2>3. Items(c, ks, vs) = I
      BY <1>6 DEF Items
    <2>4. QED
      BY <1>8, <2>1, <2>2, <2>3
  <1>10. PICK F : F = FlattenSeq(I) /\ F \in Seq(Sym) /\ Len(F) \in Nat
    BY <1>7, FlattenFacts, LenProperties
  <1>11. PICK A : A = <<"[">> \o F /\ A \in Seq(Sym) /\ Len(A) = 1 + Len(F)
    <2>1. <<"[">> \in Seq(Sym)
      BY MarkSeqs
    <2>2. /\ <<"[">> \o F \in Seq(Sym)
          /\ Len(<<"[">> \o F) = Len(<<"[">>) + Len(F)
      BY <1>10, <2>1, ConcatProperties
    <2>3. QED
      BY <2>2
  <1>12. B \in Seq(Sym) /\ Len(B) = 2 + Len(F)
    <2>1. <<"]">> \in Seq(Sym)
      BY MarkSeqs
    <2>2. A \o <<"]">> \in Seq(Sym) /\ Len(A \o <<"]">>) = Len(A) + Len(<<"]">>)
      BY <1>11, <2>1, ConcatProperties
    <2>3. B = A \o <<"]">>
      BY <1>8, <1>10, <1>11
    <2>4. QED
      BY <1>10, <1>11, <2>2, <2>3
  <1>13. PICK t, m : /\ t = w.text /\ m = Len(t) /\ t \in Seq(Sym) /\ m \in Nat
    <2>1. w.text \in Seq(Sym)
      BY WordsApart DEF WordsOf, AllWords
    <2>2. QED
      BY <2>1, LenProperties
  <1>14. PICK E : E = <<e>> /\ E \in Seq(Sym) /\ Len(E) = 1
    <2>1. e \in Sym
      BY DEF Sym
    <2>2. <<e>> \in Seq(Sym) /\ Len(<<e>>) = 1
      BY <2>1
    <2>3. QED
      BY <2>2
  <1>15. PICK T : T = t \o B /\ T \in Seq(Sym) /\ Len(T) = m + Len(B)
    BY <1>12, <1>13, ConcatProperties
  <1>16. l.text = T \o E /\ Len(T \o E) = Len(T) + 1
    BY <1>3, <1>9, <1>13, <1>14, <1>15, ConcatProperties
  <1>17. Len(text) \in Nat /\ a \in Nat
    BY LenProperties DEF LineHere, Has
  <1>18. Has(a, T) /\ Has(a + Len(T), E)
    <2>1. Has(a, T \o E)
      BY <1>16 DEF LineHere
    <2>2. QED
      BY <1>14, <1>15, <1>17, <2>1, HasParts
  <1>19. Has(a, t) /\ Has(p, B)
    BY <1>12, <1>13, <1>15, <1>17, <1>18, HasParts
  <1>20. ItemStart(p, I, Len(I)) = p + 1 + Len(F)
    <2>1. Len(I) \in 0..Len(I)
      BY <1>7, LenProperties
    <2>2. FirstOf(I, Len(I)) \in Seq(Seq(Sym)) /\ Len(FirstOf(I, Len(I))) = Len(I)
      BY <1>7, <2>1, FlattenGoesOn
    <2>3. \A j \in 1..Len(I) : FirstOf(I, Len(I))[j] = I[j]
      BY DEF FirstOf
    <2>4. FirstOf(I, Len(I)) = I
      BY <1>7, <2>2, <2>3, SeqEqual
    <2>5. QED
      BY <1>10, <2>4 DEF ItemStart
  <1>21. PICK f \in Nat : f = Len(F)
    BY <1>10
  <1>22. /\ a + Len(T) = ItemStart(p, I, Len(I)) + 1
         /\ a + Len(l.text) = ItemStart(p, I, Len(I)) + 2
    <2>1. Len(T) = m + (2 + f) /\ Len(l.text) = (m + (2 + f)) + 1
      BY <1>12, <1>15, <1>16, <1>21
    <2>2. ItemStart(p, I, Len(I)) = (a + m) + 1 + f
      BY <1>13, <1>20, <1>21
    <2>3. /\ a + (m + (2 + f)) = ((a + m) + 1 + f) + 1
          /\ a + ((m + (2 + f)) + 1) = ((a + m) + 1 + f) + 2
      <3>1. \A x \in Nat, y \in Nat, z \in Nat :
              /\ x + (y + (2 + z)) = ((x + y) + 1 + z) + 1
              /\ x + ((y + (2 + z)) + 1) = ((x + y) + 1 + z) + 2
        OBVIOUS
      <3>2. m \in Nat /\ a \in Nat /\ f \in Nat
        BY <1>13, <1>17, <1>21
      <3>3. QED
        BY <3>1, <3>2, Zenon
    <2>4. QED
      BY <2>1, <2>2, <2>3
  <1>23. Is(a + Len(T), Closers)
    <2>1. Has(a + Len(T), <<e>>)
      BY <1>14, <1>18
    <2>2. QED
      BY <1>3, <1>17, <2>1, HasChar
  <1>24. QED
    BY <1>1, <1>5, <1>7, <1>8, <1>13, <1>19, <1>22, <1>23
-----------------------------------------------------------------------------
(* A line that is in order, while it is read *)

(* The part of a list that has been read is the beginning of what it means, *)
(* and the reader is at the next of its items.                              *)
ReadingList(w, l) ==
  LET ks == l.means.keys
      vs == l.means.vals
      n == Len(keys)
      at == ItemStart(from + Len(w.text), ItemsOf(l), n)
  IN  /\ ListLine(who, w, l) /\ cmd = w.cmd
      /\ n <= Len(ks) /\ \A j \in 1..n : keys[j] = ks[j]
      /\ w.cmd = "WRITE" => Len(vals) = n /\ \A j \in 1..n : vals[j] = vs[j]
      /\ w.cmd # "WRITE" => vals = <<>>
      /\ pc = "open" => n = 0 /\ pos = from + Len(w.text)
      /\ pc = "pairs" => w.cmd = "WRITE" /\ n < Len(ks) /\ pos = at + 1
      /\ pc = "keys" => w.cmd # "WRITE" /\ n < Len(ks) /\ pos = IF n = 0 THEN at ELSE at + 1
      /\ pc = "close" => n = Len(ks) /\ pos = at + 1

ReadingLine(l) ==
  /\ pc \in {"open", "pairs", "keys", "close"} =>
       \E w \in WordsOf(who) : ReadingList(w, l)
  /\ pc = "number" =>
       \E w \in WordsOf(who) :
         NumberLine(who, w, l) /\ cmd = w.cmd /\ pos = from + Len(w.text)
  /\ Between => run = l.means /\ pos = from + Len(l.text)

LineInv ==
  \A i \in DOMAIN lines :
    LineStart(i) = from /\ InOrder(who, lines[i]) => ReadingLine(lines[i])

(* cleanup() goes to the end of a line that has its line end there. *)
LEMMA CleanupLine ==
  ASSUME NEW l, NEW a, LineHere(l, a), NEW j \in 1..(Len(l.text) + 1),
         NoLineEnd(l.text, j), j = Len(l.text) + 1 => l.text[Len(l.text)] # NL,
         NEW q, q = a + j - 1
  PROVE  Cleanup(q) = a + Len(l.text)
  <1>1. PICK t, n : t = l.text /\ n = Len(t)
    OBVIOUS
  <1>2. /\ text \in Seq(Sym) /\ Len(text) \in Nat
        /\ n \in Nat \ {0} /\ a \in Nat \ {0} /\ a + n - 1 <= Len(text)
        /\ \A k \in 1..n : text[a + k - 1] = t[k]
        /\ t[n] # NL => a + n = Len(text) + 1
    BY <1>1, LenProperties DEF LineHere, Has
  <1>3. j \in 1..(n + 1) /\ (\A k \in j..(n - 1) : t[k] # NL) /\ (j = n + 1 => t[n] # NL)
    BY <1>1 DEF NoLineEnd
  <1>4. q \in Nat \ {0}
    <2>1. a \in Nat \ {0} /\ j \in Nat \ {0}
      BY <1>2, <1>3
    <2>2. QED
      BY <2>1
  <1>5. \A i \in q..(a + n - 2) : text[i] # NL
    <2>1. ASSUME NEW i \in q..(a + n - 2) PROVE text[i] # NL
      <3>1. i - a + 1 \in j..(n - 1) /\ i - a + 1 \in 1..n /\ a + (i - a + 1) - 1 = i
        <4>1. a \in Nat \ {0} /\ n \in Nat \ {0} /\ j \in Nat \ {0}
          BY <1>2, <1>3
        <4>2. i \in (a + j - 1)..(a + n - 2)
          OBVIOUS
        <4>3. QED
          BY <4>1, <4>2
      <3>2. text[a + (i - a + 1) - 1] = t[i - a + 1] /\ t[i - a + 1] # NL
        BY <1>2, <1>3, <3>1
      <3>3. QED
        BY <3>1, <3>2
    <2>2. QED
      BY <2>1
  <1>6. text[a + n - 1] = t[n]
    <2>1. n \in 1..n
      BY <1>2
    <2>2. QED
      BY <1>2, <2>1, Zenon
  <1>7. CASE t[n] = NL
    <2>1. PICK e : e = a + n - 1
      OBVIOUS
    <2>2. e \in q..Len(text) /\ e + 1 = a + n /\ e - 1 = a + n - 2
      <3>1. j <= n /\ j \in Nat \ {0} /\ a \in Nat \ {0} /\ n \in Nat \ {0}
        BY <1>2, <1>3, <1>7
      <3>2. Len(text) \in Nat /\ a + n - 1 <= Len(text)
        BY <1>2
      <3>3. QED
        BY <2>1, <3>1, <3>2
    <2>3. text[e] = NL /\ \A i \in q..(e - 1) : text[i] # NL
      BY <1>5, <1>6, <1>7, <2>1, <2>2
    <2>4. Cleanup(q) = e + 1
      BY <1>2, <1>4, <2>2, <2>3, CleanupAt
    <2>5. QED
      BY <1>1, <2>2, <2>4
  <1>8. CASE t[n] # NL
    <2>1. \A i \in q..Len(text) : text[i] # NL
      <3>1. ASSUME NEW i \in q..Len(text) PROVE text[i] # NL
        <4>1. i = a + n - 1 \/ i \in q..(a + n - 2)
          BY <1>2, <1>4, <1>8
        <4>2. QED
          BY <1>5, <1>6, <1>8, <4>1
      <3>2. QED
        BY <3>1
    <2>2. Cleanup(q) = Len(text) + 1
      BY <1>2, <2>1, CleanupNone
    <2>3. QED
      BY <1>1, <1>2, <1>8, <2>2
  <1>9. QED
    BY <1>7, <1>8

(* After a command is run as the line says, nothing more is asked. *)
LEMMA LineDone ==
  ASSUME NEW l, pc' \in {"next", "end"}, run' = l.means, pos' = from' + Len(l.text)
  PROVE  ReadingLine(l)'
  BY DEF ReadingLine, Between

(* get_next() at an empty line, *)
LEMMA EmptyGetNext ==
  ASSUME ListInv, GetNext, NEW l, LineHere(l, pos), EmptyLine(l)
  PROVE  ReadingLine(l)'
  <1>0. Len(text) \in Nat /\ pos \in Nat \ {0} /\ from' = pos
    BY ListFacts DEF GetNext
  <1>1. text[pos] = l.text[1] /\ pos <= Len(text)
    <2>1. PICK n : n = Len(l.text)
      OBVIOUS
    <2>2. /\ n \in Nat \ {0} /\ pos + n - 1 <= Len(text)
          /\ \A k \in 1..n : text[pos + k - 1] = l.text[k]
      BY <2>1 DEF LineHere, Has
    <2>3. 1 \in 1..n /\ pos + 1 - 1 = pos
      BY <1>0, <2>2
    <2>4. QED
      BY <1>0, <2>2, <2>3
  <1>2. text[pos] \in {"#", NL} /\ l.means = Nothing /\ NoLineEnd(l.text, 1)
    BY <1>1 DEF EmptyLine
  <1>3. Is(pos, {"#", NL})
    BY <1>1, <1>2 DEF Is
  <1>4. ASSUME NEW w \in Matching PROVE FALSE
    <2>1. w \in AllWords /\ Is(pos, {w.text[1]})
      BY MatchFacts DEF Matching, Words
    <2>2. w.text[1] = text[pos]
      BY <2>1 DEF Is
    <2>3. 1 \in 1..Len(w.text)
      BY <2>1, WordFacts
    <2>4. w.text[1] \notin {"#", NL}
      BY <2>1, <2>3, WordsApart
    <2>5. QED
      BY <1>2, <2>2, <2>4
  <1>5. pos' = Cleanup(pos) /\ run' = Nothing /\ pc' = "next"
    BY <1>3, <1>4, Zenon DEF GetNext
  <1>6. Cleanup(pos) = pos + Len(l.text)
    <2>1. Len(l.text) \in Nat \ {0}
      BY DEF LineHere
    <2>2. 1 \in 1..(Len(l.text) + 1) /\ 1 # Len(l.text) + 1 /\ pos = pos + 1 - 1
      BY <1>0, <2>1
    <2>3. QED
      BY <1>2, <2>2, CleanupLine
  <1>7. QED
    BY <1>0, <1>2, <1>5, <1>6, LineDone

(* at a word that stands bare, *)
LEMMA BareGetNext ==
  ASSUME ListInv, GetNext, NEW l, LineHere(l, pos), NEW w \in WordsOf(who), BareLine(w, l)
  PROVE  ReadingLine(l)'
  <1>0. /\ Len(text) \in Nat /\ pos \in Nat \ {0} /\ from' = pos
        /\ who \in Readers /\ text \in Seq(Sym)
    BY ListFacts DEF GetNext, ListInv
  <1>1. PICK t, n : t = w.text /\ n = Len(t)
    OBVIOUS
  <1>2. w \in AllWords
    BY DEF WordsOf, AllWords
  <1>3. t \in Seq(Sym) /\ n \in Nat \ {0} /\ t[n] # NL
    <2>1. t \in Seq(Sym) /\ n >= 2 /\ \A j \in 1..n : t[j] # NL
      BY <1>1, <1>2, WordsApart
    <2>2. n \in Nat
      BY <1>1, <2>1, LenProperties
    <2>3. n \in 1..n
      BY <2>1, <2>2
    <2>4. QED
      BY <2>1, <2>2, <2>3
  <1>4. PICK p : p = pos + n /\ p \in Nat \ {0}
    BY <1>0, <1>3
  <1>5. /\ Has(pos, t)
        /\ \/ p = Len(text) + 1 /\ Len(l.text) = n
           \/ Is(p, {NL}) /\ p <= Len(text) /\ Len(l.text) = n + 1
    <2>1. CASE l.text = t
      <3>1. Has(pos, t) /\ pos + n = Len(text) + 1
        BY <1>1, <1>3, <2>1 DEF LineHere
      <3>2. QED
        BY <1>1, <1>4, <2>1, <3>1
    <2>2. CASE l.text = t \o <<NL>>
      <3>1. PICK e : e = <<NL>> /\ e \in Seq(Sym) /\ Len(e) = 1
        <4>1. NL \in Sym
          BY DEF Sym, Closers
        <4>2. <<NL>> \in Seq(Sym) /\ Len(<<NL>>) = 1
          BY <4>1
        <4>3. QED
          BY <4>2
      <3>2. Has(pos, t \o e)
        BY <2>2, <3>1 DEF LineHere
      <3>3. Has(pos, t) /\ Has(pos + Len(t), e)
        BY <1>0, <1>3, <3>1, <3>2, HasParts
      <3>4. p \in 1..Len(text) /\ Is(p, {NL})
        <4>1. Has(p, <<NL>>)
          BY <1>1, <1>4, <3>1, <3>3
        <4>2. QED
          BY <1>0, <4>1, HasChar
      <3>5. Len(t \o e) = n + 1
        BY <1>1, <1>3, <3>1, Joined
      <3>6. QED
        BY <1>0, <2>2, <3>1, <3>3, <3>4, <3>5
    <2>3. QED
      BY <1>1, <2>1, <2>2 DEF BareLine
  <1>6. Matching = {w} /\ ~Is(pos, {"#", NL})
    BY <1>0, <1>1, <1>5, TheWord
  <1>7. /\ pos' = Past(p + 1) /\ run' = [Nothing EXCEPT !.cmd = w.cmd]
        /\ pc' = IF w.cmd = "DISCONNECT" THEN "end" ELSE "next"
    <2>1. w.bare /\ (p > Len(text) \/ Is(p, {NL}))
      BY <1>0, <1>5 DEF BareLine
    <2>2. w \in Matching /\ Matching # {} /\ \A v \in Matching : v = w
      BY <1>6
    <2>3. p = pos + Len(w.text)
      BY <1>1, <1>4
    <2>4. \E v \in Matching :
            LET q == pos + Len(v.text)
            IN  \/ ~v.bare
                \/ /\ pos' = Past(q + 1) /\ run' = [Nothing EXCEPT !.cmd = v.cmd]
                   /\ pc' = IF v.cmd = "DISCONNECT" THEN "end" ELSE "next"
                \/ q <= Len(text) /\ ~Is(q, {NL})
      BY <1>6, <2>2, Zenon DEF GetNext
    <2>5. ~(p <= Len(text) /\ ~Is(p, {NL}))
      BY <1>0, <1>4, <2>1
    <2>6. QED
      BY <2>1, <2>2, <2>3, <2>4, <2>5, Zenon
  <1>8. pc' \in {"next", "end"}
    BY <1>7
  <1>9. pos' = from' + Len(l.text)
    <2>1. p = Len(text) + 1 => Past(p + 1) = p
      BY <1>0 DEF Past
    <2>2. p <= Len(text) => Past(p + 1) = p + 1
      BY <1>0, <1>4 DEF Past
    <2>3. QED
      BY <1>0, <1>3, <1>4, <1>5, <1>7, <2>1, <2>2
  <1>10. run' = l.means
    BY <1>7 DEF BareLine
  <1>11. QED
    BY <1>8, <1>9, <1>10, LineDone

(* and at a word something follows. *)
LEMMA WordGetNext ==
  ASSUME ListInv, GetNext, NEW w \in WordsOf(who), ~w.bare, Has(pos, w.text)
  PROVE  /\ from' = pos /\ who' = who /\ text' = text /\ keys' = <<>> /\ vals' = <<>>
         /\ pos' = pos + Len(w.text) /\ cmd' = w.cmd
         /\ pc' = IF w.cmd \in {"WAIT", "DELAY"} THEN "number" ELSE "open"
  <1>1. who \in Readers /\ text \in Seq(Sym)
    BY DEF ListInv
  <1>2. Matching = {w} /\ ~Is(pos, {"#", NL})
    BY <1>1, TheWord
  <1>3. w \in Matching /\ Matching # {} /\ \A v \in Matching : v = w
    BY <1>2
  <1>4. \E v \in Matching :
          \/ /\ pos' = pos + Len(v.text) /\ cmd' = v.cmd
             /\ pc' = IF v.cmd \in {"WAIT", "DELAY"} THEN "number" ELSE "open"
          \/ v.bare
    BY <1>2, <1>3, Zenon DEF GetNext
  <1>5. /\ from' = pos /\ who' = who /\ text' = text /\ keys' = <<>> /\ vals' = <<>>
    BY DEF GetNext
  <1>6. QED
    BY <1>3, <1>4, <1>5, Zenon

(* get_next() at a line that is in order. *)
LEMMA LineGetNext ==
  ASSUME ListInv, GetNext, NEW l, LineHere(l, pos)
  PROVE  ReadingLine(l)'
  <1>1. ASSUME EmptyLine(l) PROVE ReadingLine(l)'
    BY <1>1, EmptyGetNext
  <1>2. ASSUME NEW w \in WordsOf(who), BareLine(w, l) PROVE ReadingLine(l)'
    BY <1>2, BareGetNext
  <1>3. ASSUME NEW w \in WordsOf(who), NumberLine(who, w, l) PROVE ReadingLine(l)'
    <2>1. w.cmd \in {"WAIT", "DELAY"} /\ ~w.bare
      <3>1. w \in AllWords /\ w.cmd \in {"WAIT", "DELAY"}
        BY <1>3 DEF WordsOf, AllWords, NumberLine
      <3>2. QED
        BY <3>1, WordsApart
    <2>2. Has(pos, w.text)
      <3>1. PICK t, n : t = w.text /\ n = Len(t)
        OBVIOUS
      <3>2. t \in Seq(Sym) /\ n \in Nat
        <4>1. t \in Seq(Sym)
          BY <3>1, WordsApart DEF WordsOf, AllWords
        <4>2. QED
          BY <3>1, <4>1, LenProperties
      <3>3. PICK last \in (n + 1)..Len(l.text) : \A j \in 1..n : l.text[j] = t[j]
        BY <1>3, <3>1, Zenon DEF NumberLine
      <3>4. PICK m : m = Len(l.text) /\ m \in Nat /\ n <= m
        <4>1. Len(l.text) \in Nat
          BY Zenon DEF LineHere
        <4>2. QED
          BY <3>2, <3>3, <4>1
      <3>5. /\ pos \in Nat \ {0} /\ pos + m - 1 <= Len(text) /\ Len(text) \in Nat
            /\ \A j \in 1..m : text[pos + j - 1] = l.text[j]
        BY <3>4, ListFacts DEF LineHere, Has
      <3>6. ASSUME NEW j \in 1..n PROVE text[pos + j - 1] = t[j]
        <4>1. j \in 1..m
          BY <3>2, <3>4
        <4>2. QED
          BY <3>3, <3>5, <4>1
      <3>7. pos + n - 1 <= Len(text)
        BY <3>2, <3>4, <3>5
      <3>8. QED
        BY <3>1, <3>5, <3>6, <3>7 DEF Has
    <2>3. /\ from' = pos /\ who' = who /\ cmd' = w.cmd /\ pc' = "number"
          /\ pos' = pos + Len(w.text)
      BY <2>1, <2>2, WordGetNext
    <2>4. w \in WordsOf(who') /\ NumberLine(who', w, l)
      BY <1>3, <2>3
    <2>5. \E v \in WordsOf(who') :
            NumberLine(who', v, l) /\ cmd' = v.cmd /\ pos' = from' + Len(v.text)
      BY <2>3, <2>4
    <2>6. pc' \notin {"open", "pairs", "keys", "close"} /\ ~Between'
      BY <2>3 DEF Between
    <2>7. QED
      BY <2>5, <2>6 DEF ReadingLine
  <1>4. ASSUME NEW w \in WordsOf(who), ListLine(who, w, l) PROVE ReadingLine(l)'
    <2>1. ~w.bare /\ w.cmd \notin {"WAIT", "DELAY"} /\ Len(l.means.keys) \in Nat \ {0}
      <3>1. Len(l.means.keys) \in 1..(IF who = "job" THEN MaxPairs - 1 ELSE 1)
        BY <1>4 DEF ListLine
      <3>2. QED
        BY <1>4, <3>1, ReaderAssumption DEF ListLine
    <2>2. Has(pos, w.text)
      BY <1>4, ListStands
    <2>3. /\ from' = pos /\ who' = who /\ cmd' = w.cmd /\ pc' = "open"
          /\ pos' = pos + Len(w.text) /\ keys' = <<>> /\ vals' = <<>>
      BY <2>1, <2>2, WordGetNext
    <2>4. Len(keys') = 0 /\ Len(vals') = 0
      BY <2>3, EmptySeq
    <2>5. ReadingList(w, l)'
      BY <1>4, <2>1, <2>3, <2>4 DEF ReadingList
    <2>6. \E v \in WordsOf(who') : ReadingList(v, l)'
      BY <2>3, <2>5
    <2>7. pc' # "number" /\ ~Between'
      BY <2>3 DEF Between
    <2>8. QED
      BY <2>6, <2>7 DEF ReadingLine
  <1>5. InOrder(who, l)
    BY DEF LineHere
  <1>6. QED
    BY <1>1, <1>2, <1>3, <1>4, <1>5 DEF InOrder

(* Item j of a list, with the key and the value it is made of. *)
IsItem(w, l, j, k, v) ==
  /\ k \in Strings /\ k \in Seq(Sym)
  /\ w.cmd = "WRITE" =>
       /\ v \in Strings /\ v \in Seq(Sym)
       /\ ItemsOf(l)[j] = <<"(">> \o k \o <<Comma>> \o v \o <<")">>
  /\ w.cmd # "WRITE" => ItemsOf(l)[j] = IF j = 1 THEN k ELSE <<Comma>> \o k

(* The items of a list that is in order. *)
LEMMA ItemIs ==
  ASSUME NEW l, NEW r, NEW w, ListLine(r, w, l), NEW j \in 1..Len(l.means.keys)
  PROVE  IsItem(w, l, j, l.means.keys[j], l.means.vals[j])
  <1>0. PICK k, v : k = l.means.keys[j] /\ v = l.means.vals[j]
    OBVIOUS
  <1>1. PICK ks, vs : ks = l.means.keys /\ vs = l.means.vals
    OBVIOUS
  <1>2. /\ l.means = [cmd |-> w.cmd, keys |-> ks, vals |-> vs] /\ ks \in Seq(Strings)
        /\ w.cmd = "WRITE" => vs \in Seq(Strings) /\ Len(vs) = Len(ks)
    BY <1>1, Zenon DEF ListLine
  <1>3. \A s \in Strings : s \in Seq(Sym)
    <2>1. ASSUME NEW s \in Strings PROVE s \in Seq(Sym)
      <3>1. s \in Seq(Characters)
        BY DEF Strings
      <3>2. QED
        BY <3>1, SeqMonotonic DEF Sym
    <2>2. QED
      BY <2>1
  <1>4. k \in Strings
    BY <1>0, <1>1, <1>2, ElementOfSeq
  <1>5. w.cmd = "WRITE" => v \in Strings
    BY <1>0, <1>1, <1>2, ElementOfSeq
  <1>6. DOMAIN ks = 1..Len(ks) /\ j \in DOMAIN ks
    BY <1>1, <1>2, LenProperties
  <1>7. l.means.cmd = w.cmd
    BY <1>2
  <1>8. w.cmd = "WRITE" => ItemsOf(l)[j] = <<"(">> \o k \o <<Comma>> \o v \o <<")">>
    BY <1>0, <1>1, <1>6, <1>7 DEF ItemsOf, Items, Pairs
  <1>9. w.cmd # "WRITE" => ItemsOf(l)[j] = IF j = 1 THEN k ELSE <<Comma>> \o k
    BY <1>0, <1>1, <1>6, <1>7 DEF ItemsOf, Items, Names
  <1>10. QED
    BY <1>0, <1>3, <1>4, <1>5, <1>8, <1>9 DEF IsItem

(* Only job files write. *)
LEMMA WritersRead ==
  ASSUME who \in Readers, NEW w \in WordsOf(who), w.cmd = "WRITE"
  PROVE  who = "job"
  <1>1. \A v \in ConsoleWords : v.cmd # "WRITE"
    BY TheConsoleWords DEF Spelt
  <1>2. QED
    BY <1>1 DEF WordsOf, Readers

(* What stands where item n + 1 begins, or behind the last item. *)
LEMMA NextItem ==
  ASSUME NEW l, NEW a, LineHere(l, a), NEW w \in WordsOf(who), ListLine(who, w, l),
         NEW n \in 0..Len(l.means.keys),
         NEW at, at = ItemStart(a + Len(w.text), ItemsOf(l), n)
  PROVE  /\ at \in Nat \ {0} /\ at \in 1..(Len(text) + 1)
         /\ n = Len(l.means.keys) => \A C : Is(at, C) <=> "]" \in C
         /\ n # Len(l.means.keys) /\ w.cmd = "WRITE" => \A C : Is(at, C) <=> "(" \in C
         /\ n # Len(l.means.keys) /\ w.cmd # "WRITE" /\ n # 0 =>
              \A C : Is(at, C) <=> Comma \in C
  <1>1. PICK p, I : p = a + Len(w.text) /\ I = ItemsOf(l)
    OBVIOUS
  <1>2. /\ I \in Seq(Seq(Sym)) /\ Len(I) = Len(l.means.keys)
        /\ Has(p, (<<"[">> \o FlattenSeq(I)) \o <<"]">>)
    BY <1>1, ListStands
  <1>3. text \in Seq(Sym) /\ Len(text) \in Nat /\ Len(I) \in Nat
    BY <1>2, LenProperties DEF LineHere
  <1>4. /\ at \in Nat \ {0}
        /\ n # Len(I) => Has(at, I[n + 1])
        /\ n = Len(I) => Has(at, <<"]">>)
    BY <1>1, <1>2, <1>3, ItemStands
  <1>5. CASE n = Len(I)
    <2>1. at \in 1..Len(text) /\ \A C : Is(at, C) <=> "]" \in C
      BY <1>3, <1>4, <1>5, HasChar
    <2>2. QED
      BY <1>2, <1>4, <1>5, <2>1
  <1>6. CASE n # Len(I)
    <2>1. n + 1 \in 1..Len(l.means.keys) /\ (n + 1 = 1 <=> n = 0) /\ n \in Nat
      BY <1>2, <1>3, <1>6
    <2>2. PICK k, v : k = l.means.keys[n + 1] /\ v = l.means.vals[n + 1]
      OBVIOUS
    <2>3. /\ k \in Seq(Sym)
          /\ w.cmd = "WRITE" =>
               /\ v \in Seq(Sym)
               /\ I[n + 1] = <<"(">> \o k \o <<Comma>> \o v \o <<")">>
          /\ w.cmd # "WRITE" => I[n + 1] = IF n = 0 THEN k ELSE <<Comma>> \o k
      <3>1. PICK j : j = n + 1 /\ j \in 1..Len(l.means.keys) /\ (j = 1 <=> n = 0)
        BY <2>1
      <3>2. k = l.means.keys[j] /\ v = l.means.vals[j]
        BY <2>2, <3>1
      <3>3. IsItem(w, l, j, k, v)
        <4>1. IsItem(w, l, j, l.means.keys[j], l.means.vals[j])
          BY <3>1, ItemIs
        <4>2. QED
          BY <3>2, <4>1
      <3>4. I[n + 1] = ItemsOf(l)[j]
        BY <1>1, <3>1
      <3>5. (IF j = 1 THEN k ELSE <<Comma>> \o k) = (IF n = 0 THEN k ELSE <<Comma>> \o k)
        BY <3>1, Zenon
      <3>6. QED
        BY <3>3, <3>4, <3>5, Zenon DEF IsItem
    <2>4. ASSUME w.cmd = "WRITE"
          PROVE  at \in 1..Len(text) /\ \A C : Is(at, C) <=> "(" \in C
      <3>1. PICK m \in Nat, o \in Nat : m = Len(k) /\ o = Len(v)
        <4>1. Len(k) \in Nat /\ Len(v) \in Nat
          BY <2>3, <2>4, LenProperties
        <4>2. QED
          BY <4>1
      <3>2. Has(at, <<"(">>)
        <4>1. PICK x : x = <<"(">> \o k \o <<Comma>> \o v \o <<")">> /\ Has(at, x)
          BY <1>4, <1>6, <2>3, <2>4
        <4>2. /\ text \in Seq(Sym) /\ k \in Seq(Sym) /\ v \in Seq(Sym)
              /\ m \in Nat /\ o \in Nat
          BY <1>3, <2>3, <2>4, <3>1
        <4>3. PairParts(x, k, v, at, m, o)
          BY <3>1, <4>1, <4>2, PairAt
        <4>4. QED
          BY <4>3 DEF PairParts
      <3>3. QED
        BY <1>3, <3>2, HasChar
    <2>5. ASSUME w.cmd # "WRITE", n # 0
          PROVE  at \in 1..Len(text) /\ \A C : Is(at, C) <=> Comma \in C
      <3>1. Has(at, <<Comma>> \o k)
        BY <1>4, <1>6, <2>3, <2>5
      <3>2. Has(at, <<Comma>>)
        BY <1>3, <2>3, <3>1, NameAt
      <3>3. QED
        BY <1>3, <3>2, HasChar
    <2>6. at \in 1..(Len(text) + 1)
      <3>1. PICK N : N = Len(I) /\ N \in Nat /\ N \in 0..Len(I)
        BY <1>3
      <3>2. PICK x : x = I[n + 1] /\ x \in Seq(Sym) /\ Len(x) \in Nat
        BY <1>2, <2>1, ElementOfSeq, LenProperties
      <3>3. at + Len(x) - 1 <= Len(text)
        BY <1>4, <1>6, <3>2 DEF Has
      <3>4. QED
        BY <1>3, <1>4, <3>2, <3>3
    <2>7. QED
      BY <1>2, <1>4, <1>6, <2>4, <2>5, <2>6
  <1>7. QED
    BY <1>5, <1>6

(* The reader goes on with the list. *)
LEMMA ListReads ==
  ASSUME NEW l, NEW w \in WordsOf(who), ListLine(who, w, l),
         who' = who, from' = from, cmd' = w.cmd, pc' \in {"pairs", "keys", "close"},
         NEW n, n = Len(keys'), n <= Len(l.means.keys),
         NEW at, at = ItemStart(from + Len(w.text), ItemsOf(l), n),
         \A j \in 1..n : keys'[j] = l.means.keys[j],
         w.cmd = "WRITE" => Len(vals') = n /\ \A j \in 1..n : vals'[j] = l.means.vals[j],
         w.cmd # "WRITE" => vals' = <<>>,
         pc' = "pairs" => w.cmd = "WRITE" /\ n < Len(l.means.keys) /\ pos' = at + 1,
         pc' = "keys" => /\ w.cmd # "WRITE" /\ n < Len(l.means.keys)
                         /\ pos' = IF n = 0 THEN at ELSE at + 1,
         pc' = "close" => n = Len(l.means.keys) /\ pos' = at + 1
  PROVE  ReadingLine(l)'
  <1>1. pc' \notin {"open", "number", "next", "end"}
    OBVIOUS
  <1>2. ReadingList(w, l)'
    <2>1. pc' # "open"
      BY <1>1
    <2>2. QED
      BY <2>1, Zenon DEF ReadingList
  <1>3. w \in WordsOf(who')
    OBVIOUS
  <1>4. QED
    BY <1>1, <1>2, <1>3, Zenon DEF ReadingLine, Between

(* A list that is in order has a key, and fewer than the array has room for. *)
LEMMA ListSize ==
  ASSUME NEW r, NEW w, NEW l, ListLine(r, w, l)
  PROVE  /\ l.means.keys \in Seq(Strings) /\ Len(l.means.keys) \in Nat \ {0}
         /\ Len(l.means.keys) <= IF r = "job" THEN MaxPairs - 1 ELSE 1
         /\ w.cmd = "WRITE" => /\ l.means.vals \in Seq(Strings)
                               /\ Len(l.means.vals) = Len(l.means.keys)
         /\ w.cmd # "WRITE" => l.means.vals = <<>>
         /\ l.means = [cmd |-> w.cmd, keys |-> l.means.keys, vals |-> l.means.vals]
  <1>1. /\ l.means.keys \in Seq(Strings)
        /\ Len(l.means.keys) \in 1..(IF r = "job" THEN MaxPairs - 1 ELSE 1)
        /\ IF w.cmd = "WRITE" THEN l.means.vals \in Seq(Strings) /\ Len(l.means.vals) = Len(l.means.keys)
           ELSE l.means.vals = <<>>
        /\ l.means = [cmd |-> w.cmd, keys |-> l.means.keys, vals |-> l.means.vals]
    BY Zenon DEF ListLine
  <1>2. MaxPairs \in Nat
    BY ReaderAssumption
  <1>3. QED
    BY <1>1, <1>2

(* The "[" of a line that is in order. *)
LEMMA LineOpen ==
  ASSUME ListInv, Open, NEW l, LineHere(l, from), ReadingLine(l)
  PROVE  ReadingLine(l)'
  <1>1. pc = "open"
    BY DEF Open
  <1>2. PICK w \in WordsOf(who) : ReadingList(w, l)
    BY <1>1 DEF ReadingLine
  <1>3. PICK p, I : p = from + Len(w.text) /\ I = ItemsOf(l)
    OBVIOUS
  <1>4. /\ ListLine(who, w, l) /\ cmd = w.cmd /\ Len(keys) = 0 /\ pos = p
        /\ w.cmd = "WRITE" => Len(vals) = 0
        /\ w.cmd # "WRITE" => vals = <<>>
    BY <1>1, <1>2, <1>3 DEF ReadingList
  <1>5. text \in Seq(Sym) /\ Len(text) \in Nat
    BY LenProperties DEF LineHere
  <1>6. Has(p, <<"[">>) /\ p \in Nat /\ ItemStart(p, I, 0) = p + 1
    <2>1. /\ I \in Seq(Seq(Sym))
          /\ Has(p, (<<"[">> \o FlattenSeq(I)) \o <<"]">>)
      BY <1>3, <1>4, ListStands
    <2>2. 0 \in 0..Len(I)
      BY <2>1, LenProperties
    <2>3. QED
      <3>1. Has(p, <<"[">>) /\ ItemStart(p, I, 0) = p + 1
        BY <1>5, <2>1, <2>2, ItemStands
      <3>2. QED
        BY <3>1 DEF Has
  <1>7. Is(pos, {"["})
    BY <1>4, <1>5, <1>6, HasChar
  <1>8. Len(l.means.keys) \in Nat \ {0}
    BY <1>4, ListSize
  <1>9. PICK at : at = ItemStart(p, I, 0) /\ at = p + 1
    BY <1>6
  <1>10. keys' = keys /\ vals' = vals
    BY DEF Open
  <1>11. CASE w.cmd # "WRITE"
    <2>1. Parsing("keys", pos + 1)
      BY <1>4, <1>7, <1>11, Zenon DEF Open
    <2>2. pc' = "keys" /\ pos' = at /\ who' = who /\ from' = from /\ cmd' = w.cmd
      BY <1>4, <1>9, <2>1 DEF Parsing
    <2>3. 0 = Len(keys') /\ 0 <= Len(l.means.keys) /\ 0 < Len(l.means.keys)
      BY <1>4, <1>8, <1>10
    <2>4. QED
      BY <1>3, <1>4, <1>9, <1>10, <1>11, <2>2, <2>3, ListReads
  <1>12. CASE w.cmd = "WRITE"
    <2>1. Is(pos + 1, {"("})
      <3>1. 0 \in 0..Len(l.means.keys) /\ 0 # Len(l.means.keys)
        BY <1>8
      <3>2. \A C : Is(at, C) <=> "(" \in C
        BY <1>3, <1>4, <1>9, <1>12, <3>1, NextItem
      <3>3. QED
        BY <1>4, <1>9, <3>2
    <2>2. Parsing("pairs", pos + 2)
      BY <1>4, <1>7, <1>12, <2>1, Zenon DEF Open
    <2>3. pc' = "pairs" /\ pos' = at + 1 /\ who' = who /\ from' = from /\ cmd' = w.cmd
      BY <1>4, <1>6, <1>9, <2>2 DEF Parsing
    <2>4. 0 = Len(keys') /\ 0 <= Len(l.means.keys) /\ 0 < Len(l.means.keys)
      BY <1>4, <1>8, <1>10
    <2>5. \A j \in 1..0 : keys'[j] = l.means.keys[j] /\ vals'[j] = l.means.vals[j]
      OBVIOUS
    <2>6. Len(vals') = 0 /\ at = ItemStart(from + Len(w.text), ItemsOf(l), 0)
      BY <1>3, <1>4, <1>9, <1>10, <1>12
    <2>7. pc' \notin {"keys", "close"}
      BY <2>3
    <2>8. QED
      BY <1>4, <1>12, <2>3, <2>4, <2>5, <2>6, <2>7, ListReads
  <1>13. QED
    BY <1>11, <1>12

(* The next element makes the beginning of a sequence longer. *)
IsMore(s, k, t, n) ==
  /\ Len(Append(s, k)) = n + 1
  /\ \A j \in 1..(n + 1) : Append(s, k)[j] = t[j]

(* It does so if it is the next of the whole. *)
LEMMA OneMore ==
  ASSUME NEW S, NEW s \in Seq(S), NEW t, NEW n \in Nat, n = Len(s),
         \A j \in 1..n : s[j] = t[j], NEW k \in S, k = t[n + 1]
  PROVE  IsMore(s, k, t, n)
  <1>1. PICK u : u = Append(s, k)
    OBVIOUS
  <1>2. Len(u) = n + 1 /\ u[n + 1] = k /\ \A j \in 1..n : u[j] = s[j]
    BY <1>1, AppendProperties
  <1>3. ASSUME NEW j \in 1..(n + 1) PROVE u[j] = t[j]
    <2>1. CASE j = n + 1
      BY <1>2, <2>1
    <2>2. CASE j # n + 1
      <3>1. j \in 1..n
        BY <2>2
      <3>2. QED
        BY <1>2, <3>1
    <2>3. QED
      BY <2>1, <2>2
  <1>4. QED
    BY <1>1, <1>2, <1>3 DEF IsMore

(* A pair is read from behind its "(" on, up to place b. *)
PairReads(at, k, v, b) ==
  \E q : /\ ReadString(at + 1) = [value |-> 0, str |-> k, pos |-> q]
         /\ ReadString(q) = [value |-> 1, str |-> v, pos |-> b]

(* parse_pair reads a pair that has strings that fit. *)
LEMMA PairRead ==
  ASSUME text \in Seq(Sym), NEW k \in Strings, k \in Seq(Sym), NEW v \in Strings, v \in Seq(Sym),
         NEW x, x = <<"(">> \o k \o <<Comma>> \o v \o <<")">>, NEW at \in Nat \ {0}, Has(at, x)
  PROVE  PairReads(at, k, v, at + Len(x))
  <1>1. Len(text) \in Nat
    BY LenProperties
  <1>2. PICK m \in Nat, o \in Nat : m = Len(k) /\ o = Len(v)
    <2>1. Len(k) \in Nat /\ Len(v) \in Nat
      BY LenProperties
    <2>2. QED
      BY <2>1
  <1>3. /\ Len(x) = m + o + 3
        /\ Has(at + 1, k) /\ Has(at + 1 + m, <<Comma>>)
        /\ Has(at + 1 + m + 1, v) /\ Has(at + 1 + m + 1 + o, <<")">>)
    <2>1. m \in Nat /\ o \in Nat
      BY <1>2
    <2>2. PairParts(x, k, v, at, m, o)
      BY <1>2, <2>1, PairAt
    <2>3. QED
      BY <2>2 DEF PairParts
  <1>4. PICK e, f, g, h : e = at + 1 /\ f = e + m /\ g = f + 1 /\ h = g + o
    OBVIOUS
  <1>5. Has(e, k) /\ Has(f, <<Comma>>) /\ Has(g, v) /\ Has(h, <<")">>)
    BY <1>3, <1>4
  <1>6. h + 1 = at + Len(x)
    BY <1>2, <1>3, <1>4
  <1>7. /\ f \in 1..Len(text) /\ text[f] = Comma
        /\ h \in 1..Len(text) /\ text[h] = ")"
    BY <1>1, <1>5, HasChar
  <1>8. e \in 1..(Len(text) + 1) /\ g \in 1..(Len(text) + 1)
    BY <1>1, <1>2, <1>4, <1>7
  <1>9. ReadString(e) = [value |-> 0, str |-> k, pos |-> g]
    <2>1. ReadString(e) = [value |-> IF text[f] = Comma THEN 0
                                     ELSE IF text[f] = ")" THEN 1 ELSE 2,
                           str |-> k, pos |-> f + 1]
      <3>1. f = e + Len(k) /\ f <= Len(text) /\ text[f] \in {Comma, ")", "]"}
        BY <1>1, <1>2, <1>4, <1>7
      <3>2. QED
        BY <1>5, <1>8, <3>1, StringAt
    <2>2. QED
      BY <1>4, <1>7, <2>1
  <1>10. ReadString(g) = [value |-> 1, str |-> v, pos |-> h + 1]
    <2>1. ReadString(g) = [value |-> IF text[h] = Comma THEN 0
                                     ELSE IF text[h] = ")" THEN 1 ELSE 2,
                           str |-> v, pos |-> h + 1]
      <3>1. h = g + Len(v) /\ h <= Len(text) /\ text[h] \in {Comma, ")", "]"}
        BY <1>1, <1>2, <1>4, <1>7
      <3>2. QED
        BY <1>5, <1>8, <3>1, StringAt
    <2>2. ")" # Comma
      BY Marks
    <2>3. QED
      BY <1>7, <2>1, <2>2
  <1>11. QED
    BY <1>4, <1>6, <1>9, <1>10 DEF PairReads

(* A list that is being read: where it is, and what the next item is, *)
ItemAt(w, l, n, at, b) ==
  /\ n \in Nat /\ n + 1 <= Len(l.means.keys) /\ ListLine(who, w, l) /\ cmd = w.cmd
  /\ at \in Nat \ {0} /\ b \in Nat \ {0}
  /\ Has(at, ItemsOf(l)[n + 1]) /\ b = at + Len(ItemsOf(l)[n + 1])
  /\ IsItem(w, l, n + 1, l.means.keys[n + 1], l.means.vals[n + 1])
  /\ n + 1 = Len(l.means.keys) => \A C : Is(b, C) <=> "]" \in C
  /\ n + 1 # Len(l.means.keys) /\ w.cmd = "WRITE" => \A C : Is(b, C) <=> "(" \in C
  /\ n + 1 # Len(l.means.keys) /\ w.cmd # "WRITE" => \A C : Is(b, C) <=> Comma \in C

(* as long as there is one. *)
LEMMA ListAt ==
  ASSUME ListInv, NEW l, LineHere(l, from), NEW w \in WordsOf(who), ReadingList(w, l),
         NEW n, n = Len(keys), n < Len(l.means.keys), NEW p, p = from + Len(w.text),
         NEW at, at = ItemStart(p, ItemsOf(l), n),
         NEW b, b = ItemStart(p, ItemsOf(l), n + 1)
  PROVE  ItemAt(w, l, n, at, b)
  <1>1. PICK I : I = ItemsOf(l)
    OBVIOUS
  <1>2. ListLine(who, w, l) /\ cmd = w.cmd
    BY DEF ReadingList
  <1>3. /\ I \in Seq(Seq(Sym)) /\ Len(I) = Len(l.means.keys)
        /\ Has(p, (<<"[">> \o FlattenSeq(I)) \o <<"]">>)
    BY <1>1, <1>2, ListStands
  <1>4. text \in Seq(Sym) /\ n \in Nat /\ Len(I) \in Nat
    BY <1>3, LenProperties, ListFacts DEF LineHere
  <1>5. /\ n \in 0..Len(I) /\ n # Len(I) /\ n + 1 \in 1..Len(l.means.keys)
        /\ n + 1 \in 0..Len(l.means.keys) /\ n + 1 # 0
    BY <1>3, <1>4
  <1>6. at \in Nat \ {0} /\ Has(at, I[n + 1]) /\ b = at + Len(I[n + 1])
    BY <1>1, <1>3, <1>4, <1>5, ItemStands
  <1>7. IsItem(w, l, n + 1, l.means.keys[n + 1], l.means.vals[n + 1])
    BY <1>2, <1>5, ItemIs
  <1>8. PICK N : N = n + 1 /\ N \in 0..Len(l.means.keys) /\ N # 0
    BY <1>5
  <1>9. b = ItemStart(from + Len(w.text), ItemsOf(l), N)
    BY <1>8
  <1>10. /\ b \in Nat \ {0}
         /\ N = Len(l.means.keys) => \A C : Is(b, C) <=> "]" \in C
         /\ N # Len(l.means.keys) /\ w.cmd = "WRITE" => \A C : Is(b, C) <=> "(" \in C
         /\ N # Len(l.means.keys) /\ w.cmd # "WRITE" /\ N # 0 =>
              \A C : Is(b, C) <=> Comma \in C
    BY <1>2, <1>8, <1>9, NextItem
  <1>11. n + 1 <= Len(l.means.keys)
    BY <1>5
  <1>12. QED
    BY <1>1, <1>2, <1>4, <1>6, <1>7, <1>8, <1>10, <1>11 DEF ItemAt

(* A pair of a line that is in order. *)
LEMMA LineParsePair ==
  ASSUME ListInv, ParsePair, NEW l, LineHere(l, from), ReadingLine(l)
  PROVE  ReadingLine(l)'
  <1>1. pc = "pairs"
    BY DEF ParsePair
  <1>2. PICK w \in WordsOf(who) : ReadingList(w, l)
    BY <1>1 DEF ReadingLine
  <1>3. PICK p, n, I, ks, vs : /\ p = from + Len(w.text) /\ n = Len(keys) /\ I = ItemsOf(l)
                               /\ ks = l.means.keys /\ vs = l.means.vals
    OBVIOUS
  <1>4. PICK at, b : at = ItemStart(p, I, n) /\ b = ItemStart(p, I, n + 1)
    OBVIOUS
  <1>5. /\ w.cmd = "WRITE" /\ n < Len(ks) /\ pos = at + 1 /\ Len(vals) = n
        /\ \A j \in 1..n : keys[j] = ks[j] /\ vals[j] = vs[j]
    BY <1>1, <1>2, <1>3, <1>4 DEF ReadingList
  <1>6. /\ n \in Nat /\ n + 1 <= Len(ks) /\ ListLine(who, w, l) /\ cmd = w.cmd
        /\ at \in Nat \ {0} /\ b \in Nat \ {0}
        /\ Has(at, I[n + 1]) /\ b = at + Len(I[n + 1])
        /\ IsItem(w, l, n + 1, ks[n + 1], vs[n + 1])
        /\ n + 1 = Len(ks) => \A C : Is(b, C) <=> "]" \in C
        /\ n + 1 # Len(ks) => \A C : Is(b, C) <=> "(" \in C
    <2>1. ItemAt(w, l, n, at, b)
      BY <1>2, <1>3, <1>4, <1>5, ListAt
    <2>2. QED
      BY <1>3, <1>5, <2>1 DEF ItemAt
  <1>7. PICK k, v, x : k = ks[n + 1] /\ v = vs[n + 1] /\ x = I[n + 1]
    OBVIOUS
  <1>8. /\ k \in Strings /\ k \in Seq(Sym) /\ v \in Strings /\ v \in Seq(Sym)
        /\ x = <<"(">> \o k \o <<Comma>> \o v \o <<")">>
    BY <1>3, <1>5, <1>6, <1>7, Zenon DEF IsItem
  <1>9. PICK q : /\ ReadString(at + 1) = [value |-> 0, str |-> k, pos |-> q]
                 /\ ReadString(q) = [value |-> 1, str |-> v, pos |-> at + Len(x)]
    <2>1. text \in Seq(Sym) /\ Has(at, x) /\ at \in Nat \ {0}
      BY <1>6, <1>7 DEF ListInv
    <2>2. PairReads(at, k, v, at + Len(x))
      BY <1>8, <2>1, PairRead
    <2>3. QED
      BY <2>2 DEF PairReads
  <1>10. PICK key, val : key = ReadString(pos) /\ val = ReadString(key.pos)
    OBVIOUS
  <1>11. key.value = 0 /\ key.str = k /\ val.value = 1 /\ val.str = v /\ val.pos = b
    BY <1>5, <1>6, <1>7, <1>9, <1>10
  <1>12. Is(b, {"(", "]"})
    BY <1>6
  <1>13. ~Full(n + 1)
    <2>1. who = "job"
      BY <1>5, WritersRead DEF ListInv
    <2>2. Len(ks) \in Nat /\ Len(ks) <= MaxPairs - 1
      BY <1>3, <1>6, <2>1, ListSize
    <2>3. MaxPairs \in Nat
      BY ReaderAssumption
    <2>4. n + 1 # MaxPairs
      BY <1>6, <2>2, <2>3
    <2>5. QED
      BY <2>1, <2>4 DEF Full, Limit
  <1>14. /\ keys' = Append(keys, k) /\ vals' = Append(vals, v)
         /\ Parsing(IF Is(b, {"]"}) THEN "close" ELSE "pairs", b + 1)
    BY <1>3, <1>10, <1>11, <1>12, <1>13 DEF ParsePair
  <1>15. /\ Len(keys') = n + 1 /\ \A j \in 1..(n + 1) : keys'[j] = ks[j]
         /\ Len(vals') = n + 1 /\ \A j \in 1..(n + 1) : vals'[j] = vs[j]
    <2>1. keys \in Seq(Seq(Sym)) /\ vals \in Seq(Seq(Sym))
      BY DEF ListInv
    <2>2. /\ n \in Nat /\ n = Len(keys) /\ n = Len(vals)
          /\ k \in Seq(Sym) /\ v \in Seq(Sym) /\ k = ks[n + 1] /\ v = vs[n + 1]
      BY <1>3, <1>5, <1>6, <1>7, <1>8
    <2>3. (\A j \in 1..n : keys[j] = ks[j]) /\ (\A j \in 1..n : vals[j] = vs[j])
      BY <1>5
    <2>4. IsMore(keys, k, ks, n) /\ IsMore(vals, v, vs, n)
      BY <2>1, <2>2, <2>3, OneMore
    <2>5. QED
      BY <1>14, <2>4 DEF IsMore
  <1>16. /\ who' = who /\ from' = from /\ cmd' = w.cmd /\ pos' = b + 1
         /\ pc' = IF Is(b, {"]"}) THEN "close" ELSE "pairs"
    BY <1>6, <1>14 DEF Parsing
  <1>17. /\ pc' \in {"pairs", "keys", "close"}
         /\ pc' = "pairs" => n + 1 < Len(ks)
         /\ pc' # "keys"
         /\ pc' = "close" => n + 1 = Len(ks)
    <2>1. n + 1 = Len(ks) => pc' = "close"
      BY <1>6, <1>16
    <2>2. n + 1 # Len(ks) => pc' = "pairs" /\ n + 1 < Len(ks)
      <3>1. n + 1 # Len(ks) => ~Is(b, {"]"})
        <4>1. "(" \notin {"]"}
          OBVIOUS
        <4>2. QED
          BY <1>6, <4>1
      <3>2. Len(ks) \in Nat
        BY <1>3, <1>6, ListSize
      <3>3. QED
        BY <1>6, <1>16, <3>1, <3>2
    <2>3. QED
      BY <2>1, <2>2
  <1>18. PICK N : N = n + 1 /\ N \in Nat /\ N <= Len(ks)
    BY <1>6
  <1>19. QED
    <2>1. /\ N = Len(keys') /\ \A j \in 1..N : keys'[j] = ks[j]
          /\ Len(vals') = N /\ \A j \in 1..N : vals'[j] = vs[j]
          /\ b = ItemStart(p, I, N) /\ w.cmd = "WRITE" /\ N <= Len(ks)
          /\ pos' = b + 1 /\ (pc' = "pairs" => N < Len(ks))
          /\ (pc' = "close" => N = Len(ks))
      BY <1>4, <1>5, <1>15, <1>16, <1>17, <1>18
    <2>2. /\ N = Len(keys') /\ N <= Len(l.means.keys)
          /\ b = ItemStart(from + Len(w.text), ItemsOf(l), N)
          /\ (\A j \in 1..N : keys'[j] = l.means.keys[j])
          /\ (w.cmd = "WRITE" => Len(vals') = N /\ \A j \in 1..N : vals'[j] = l.means.vals[j])
          /\ (w.cmd # "WRITE" => vals' = <<>>)
      BY <1>3, <2>1
    <2>3. /\ (pc' = "pairs" => w.cmd = "WRITE" /\ N < Len(l.means.keys) /\ pos' = b + 1)
          /\ (pc' = "keys" => /\ w.cmd # "WRITE" /\ N < Len(l.means.keys)
                              /\ pos' = IF N = 0 THEN b ELSE b + 1)
          /\ (pc' = "close" => N = Len(l.means.keys) /\ pos' = b + 1)
      BY <1>3, <1>17, <2>1
    <2>4. QED
      BY <1>6, <1>16, <1>17, <2>2, <2>3, ListReads

(* A key of a line that is in order. *)
LEMMA LineParseKey ==
  ASSUME ListInv, ParseKey, NEW l, LineHere(l, from), ReadingLine(l)
  PROVE  ReadingLine(l)'
  <1>1. pc = "keys"
    BY DEF ParseKey
  <1>2. PICK w \in WordsOf(who) : ReadingList(w, l)
    BY <1>1 DEF ReadingLine
  <1>3. PICK p, n, I, ks, vs : /\ p = from + Len(w.text) /\ n = Len(keys) /\ I = ItemsOf(l)
                               /\ ks = l.means.keys /\ vs = l.means.vals
    OBVIOUS
  <1>4. PICK at, b : at = ItemStart(p, I, n) /\ b = ItemStart(p, I, n + 1)
    OBVIOUS
  <1>5. /\ w.cmd # "WRITE" /\ n < Len(ks) /\ vals = <<>>
        /\ pos = IF n = 0 THEN at ELSE at + 1
        /\ \A j \in 1..n : keys[j] = ks[j]
    BY <1>1, <1>2, <1>3, <1>4 DEF ReadingList
  <1>6. /\ n \in Nat /\ n + 1 <= Len(ks) /\ ListLine(who, w, l) /\ cmd = w.cmd
        /\ at \in Nat \ {0} /\ b \in Nat \ {0}
        /\ Has(at, I[n + 1]) /\ b = at + Len(I[n + 1])
        /\ IsItem(w, l, n + 1, ks[n + 1], vs[n + 1])
        /\ n + 1 = Len(ks) => \A C : Is(b, C) <=> "]" \in C
        /\ n + 1 # Len(ks) => \A C : Is(b, C) <=> Comma \in C
    <2>1. ItemAt(w, l, n, at, b)
      BY <1>2, <1>3, <1>4, <1>5, ListAt
    <2>2. QED
      BY <1>3, <1>5, <2>1 DEF ItemAt
  <1>7. PICK k, x : k = ks[n + 1] /\ x = I[n + 1]
    OBVIOUS
  <1>8. k \in Strings /\ k \in Seq(Sym) /\ x = IF n + 1 = 1 THEN k ELSE <<Comma>> \o k
    BY <1>3, <1>5, <1>6, <1>7, Zenon DEF IsItem
  <1>9. /\ text \in Seq(Sym) /\ Len(text) \in Nat /\ pos \in 1..(Len(text) + 1)
        /\ Len(k) \in Nat
    BY <1>8, LenProperties DEF ListInv
  <1>10. Has(pos, k) /\ b = pos + Len(k)
    <2>1. CASE n = 0
      BY <1>5, <1>6, <1>7, <1>8, <2>1
    <2>2. CASE n # 0
      <3>1. pos = at + 1 /\ x = <<Comma>> \o k /\ Has(at, x) /\ b = at + Len(x)
        BY <1>5, <1>6, <1>7, <1>8, <2>2
      <3>2. Has(at + 1, k) /\ Len(<<Comma>> \o k) = 1 + Len(k)
        BY <1>8, <1>9, <3>1, NameAt
      <3>3. b = at + (1 + Len(k))
        BY <3>1, <3>2
      <3>4. QED
        BY <1>6, <1>9, <3>1, <3>2, <3>3
    <2>3. QED
      BY <2>1, <2>2
  <1>11. /\ b <= Len(text) /\ text[b] \in {Comma, "]"}
         /\ text[b] = Comma <=> n + 1 # Len(ks)
    <2>1. n + 1 = Len(ks) => b <= Len(text) /\ text[b] = "]"
      <3>1. n + 1 = Len(ks) => Is(b, {"]"})
        BY <1>6
      <3>2. QED
        BY <3>1 DEF Is
    <2>2. n + 1 # Len(ks) => b <= Len(text) /\ text[b] = Comma
      <3>1. n + 1 # Len(ks) => Is(b, {Comma})
        BY <1>6
      <3>2. QED
        BY <3>1 DEF Is
    <2>3. Comma # "]"
      BY Marks
    <2>4. QED
      BY <2>1, <2>2, <2>3
  <1>12. PICK key : key = ReadString(pos)
    OBVIOUS
  <1>13. /\ key.str = k /\ key.pos = b + 1
         /\ key.value = IF n + 1 = Len(ks) THEN 2 ELSE 0
    <2>1. ReadString(pos) = [value |-> IF text[b] = Comma THEN 0
                                       ELSE IF text[b] = ")" THEN 1 ELSE 2,
                             str |-> k, pos |-> b + 1]
      <3>1. text[b] \in {Comma, ")", "]"}
        BY <1>11
      <3>2. QED
        BY <1>8, <1>9, <1>10, <1>11, <3>1, StringAt
    <2>2. "]" # ")"
      OBVIOUS
    <2>3. QED
      BY <1>11, <1>12, <2>1, <2>2
  <1>14. ~(Full(n + 1) /\ (who = "job" \/ key.value # 2))
    <2>1. Len(ks) \in Nat /\ Len(ks) <= IF who = "job" THEN MaxPairs - 1 ELSE 1
      BY <1>3, <1>6, ListSize
    <2>2. CASE who = "job"
      <3>1. n + 1 # MaxPairs
        BY <1>6, <2>1, <2>2, ReaderAssumption
      <3>2. QED
        BY <2>2, <3>1 DEF Full, Limit
    <2>3. CASE who # "job"
      <3>1. n + 1 = Len(ks)
        BY <1>6, <2>1, <2>3
      <3>2. QED
        BY <1>13, <2>3, <3>1
    <2>4. QED
      BY <2>2, <2>3
  <1>15. /\ keys' = Append(keys, k) /\ vals' = vals
         /\ Parsing(IF key.value = 2 THEN "close" ELSE "keys", b + 1)
    <2>1. key.value \in {0, 2}
      BY <1>13
    <2>2. QED
      BY <1>3, <1>12, <1>13, <1>14, <2>1 DEF ParseKey
  <1>16. Len(keys') = n + 1 /\ \A j \in 1..(n + 1) : keys'[j] = ks[j]
    <2>1. keys \in Seq(Seq(Sym))
      BY DEF ListInv
    <2>2. n \in Nat /\ n = Len(keys) /\ k \in Seq(Sym) /\ k = ks[n + 1]
      BY <1>3, <1>6, <1>7, <1>8
    <2>3. \A j \in 1..n : keys[j] = ks[j]
      BY <1>5
    <2>4. IsMore(keys, k, ks, n)
      BY <2>1, <2>2, <2>3, OneMore
    <2>5. QED
      BY <1>15, <2>4 DEF IsMore
  <1>17. /\ who' = who /\ from' = from /\ cmd' = w.cmd /\ pos' = b + 1
         /\ pc' = IF n + 1 = Len(ks) THEN "close" ELSE "keys"
    BY <1>6, <1>13, <1>15 DEF Parsing
  <1>18. PICK N : /\ N = n + 1 /\ N \in Nat \ {0} /\ N <= Len(ks)
                  /\ Len(ks) \in Nat
    <2>1. Len(ks) \in Nat
      BY <1>3, <1>6, ListSize
    <2>2. QED
      BY <1>6, <2>1
  <1>19. /\ N = Len(keys') /\ N <= Len(l.means.keys)
         /\ b = ItemStart(from + Len(w.text), ItemsOf(l), N)
         /\ (\A j \in 1..N : keys'[j] = l.means.keys[j])
         /\ (w.cmd = "WRITE" => Len(vals') = N /\ \A j \in 1..N : vals'[j] = l.means.vals[j])
         /\ (w.cmd # "WRITE" => vals' = <<>>)
    BY <1>3, <1>4, <1>5, <1>15, <1>16, <1>18
  <1>20. /\ pc' \in {"pairs", "keys", "close"}
         /\ (pc' = "pairs" => w.cmd = "WRITE" /\ N < Len(l.means.keys) /\ pos' = b + 1)
         /\ (pc' = "keys" => /\ w.cmd # "WRITE" /\ N < Len(l.means.keys)
                             /\ pos' = IF N = 0 THEN b ELSE b + 1)
         /\ (pc' = "close" => N = Len(l.means.keys) /\ pos' = b + 1)
    BY <1>3, <1>5, <1>17, <1>18
  <1>21. QED
    BY <1>6, <1>17, <1>19, <1>20, ListReads

(* The line end of a list that is in order. *)
LEMMA LineClose ==
  ASSUME ListInv, Close, NEW l, LineHere(l, from), ReadingLine(l)
  PROVE  ReadingLine(l)'
  <1>1. pc = "close"
    BY DEF Close
  <1>2. PICK w \in WordsOf(who) : ReadingList(w, l)
    BY <1>1 DEF ReadingLine
  <1>3. PICK p, I, ks, vs : /\ p = from + Len(w.text) /\ I = ItemsOf(l)
                            /\ ks = l.means.keys /\ vs = l.means.vals
    OBVIOUS
  <1>4. /\ ListLine(who, w, l) /\ cmd = w.cmd
        /\ Len(keys) = Len(ks) /\ pos = ItemStart(p, I, Len(ks)) + 1
        /\ \A j \in 1..Len(ks) : keys[j] = ks[j]
        /\ w.cmd = "WRITE" => Len(vals) = Len(ks) /\ \A j \in 1..Len(ks) : vals[j] = vs[j]
        /\ w.cmd # "WRITE" => vals = <<>>
    BY <1>1, <1>2, <1>3 DEF ReadingList
  <1>5. PICK at : at = ItemStart(p, I, Len(ks))
    OBVIOUS
  <1>6. /\ Is(at + 1, Closers) /\ from + Len(l.text) = at + 2
        /\ ks \in Seq(Seq(Sym))
        /\ w.cmd = "WRITE" => vs \in Seq(Seq(Sym))
    <2>1. /\ Len(I) = Len(ks) /\ Is(ItemStart(p, I, Len(I)) + 1, Closers)
          /\ from + Len(l.text) = ItemStart(p, I, Len(I)) + 2
          /\ ks \in Seq(Seq(Sym))
          /\ w.cmd = "WRITE" => vs \in Seq(Seq(Sym))
      BY <1>3, <1>4, ListStands
    <2>2. QED
      BY <1>5, <2>1
  <1>7. pos = at + 1 /\ pos \in Nat
    BY <1>4, <1>5, ListFacts
  <1>8. keys \in Seq(Seq(Sym)) /\ vals \in Seq(Seq(Sym))
    BY DEF ListInv
  <1>9. keys = ks
    <2>1. ks \in Seq(Seq(Sym)) /\ Len(ks) = Len(keys) /\ \A j \in 1..Len(keys) : keys[j] = ks[j]
      BY <1>4, <1>6
    <2>2. QED
      BY <1>8, <2>1, SeqEqual
  <1>10. vals = vs
    <2>0. IF w.cmd = "WRITE" THEN Len(vs) = Len(ks) ELSE vs = <<>>
      <3>1. IF w.cmd = "WRITE" THEN l.means.vals \in Seq(Strings) /\ Len(l.means.vals) = Len(l.means.keys)
            ELSE l.means.vals = <<>>
        BY <1>4, Zenon DEF ListLine
      <3>2. QED
        BY <1>3, <3>1, Zenon
    <2>1. CASE w.cmd = "WRITE"
      <3>1. /\ vs \in Seq(Seq(Sym)) /\ Len(vs) = Len(ks)
            /\ Len(vals) = Len(ks) /\ \A j \in 1..Len(ks) : vals[j] = vs[j]
        <4>1. Len(vs) = Len(ks)
          BY <2>1, <2>0
        <4>2. QED
          BY <1>4, <1>6, <2>1, <4>1
      <3>2. Len(vs) = Len(vals) /\ \A j \in 1..Len(vals) : vals[j] = vs[j]
        BY <3>1
      <3>3. QED
        BY <1>8, <3>1, <3>2, SeqEqual
    <2>2. CASE w.cmd # "WRITE"
      BY <1>4, <2>0, <2>2
    <2>3. QED
      BY <2>1, <2>2
  <1>11. l.means = [cmd |-> cmd, keys |-> keys, vals |-> vals]
    BY <1>3, <1>4, <1>9, <1>10, ListSize
  <1>12. Run(pos + 1, [cmd |-> cmd, keys |-> keys, vals |-> vals])
    BY <1>6, <1>7 DEF Close
  <1>13. pc' = "next" /\ run' = l.means /\ pos' = pos + 1 /\ from' = from
    BY <1>11, <1>12 DEF Run
  <1>14. pos + 1 = from + Len(l.text)
    <2>1. at + 1 \in Nat /\ from + Len(l.text) = at + 2 /\ at + 2 = (at + 1) + 1
      <3>1. at + 1 \in Nat /\ from + Len(l.text) = at + 2
        BY <1>6, <1>7
      <3>2. at \in Nat \ {0}
        <4>1. Len(ks) \in 0..Len(ks)
          BY <1>3, <1>4, ListSize
        <4>2. QED
          BY <1>3, <1>4, <1>5, <4>1, NextItem
      <3>3. QED
        BY <3>1, <3>2
    <2>2. QED
      BY <1>7, <2>1
  <1>15. pc' \in {"next", "end"} /\ pos' = from' + Len(l.text)
    BY <1>13, <1>14
  <1>16. QED
    BY <1>13, <1>15, LineDone

(* What the text has between two places. *)
LEMMA SamePart ==
  ASSUME text \in Seq(Sym), NEW t \in Seq(Sym), NEW a, Has(a, t),
         NEW i \in Nat \ {0}, NEW j \in i..Len(t)
  PROVE  SubSeq(text, a + i - 1, a + j - 1 - 1) = SubSeq(t, i, j - 1)
  <1>1. PICK m \in Nat, n \in Nat : m = Len(text) /\ n = Len(t)
    <2>1. Len(text) \in Nat /\ Len(t) \in Nat
      BY LenProperties
    <2>2. QED
      BY <2>1
  <1>2. /\ a \in Nat \ {0} /\ a + n - 1 <= m
        /\ \A k \in 1..n : text[a + k - 1] = t[k]
    BY <1>1 DEF Has
  <1>3. /\ i \in Nat \ {0} /\ j \in Nat \ {0} /\ i <= j /\ j <= n
    BY <1>1
  <1>4. PICK p, q : p = a + i - 1 /\ q = a + j - 1 - 1
    OBVIOUS
  <1>5. p \in 1..(m + 1) /\ q \in (p - 1)..m /\ i \in 1..(n + 1) /\ j - 1 \in (i - 1)..n
    BY <1>1, <1>2, <1>3, <1>4
  <1>6. PICK u, v : u = SubSeq(text, p, q) /\ v = SubSeq(t, i, j - 1)
    OBVIOUS
  <1>7. /\ u \in Seq(Sym) /\ Len(u) = q - p + 1
        /\ \A k \in 1..(q - p + 1) : u[k] = text[p + k - 1]
    <2>1. p \in Int /\ q \in Int /\ p - 1 <= q
      BY <1>1, <1>5
    <2>2. \A k \in p..q : text[k] \in Sym
      <3>1. \A k \in p..q : k \in 1..Len(text)
        BY <1>1, <1>5
      <3>2. QED
        BY <3>1, ElementOfSeq
    <2>3. /\ u \in Seq(Sym) /\ Len(u) = IF p <= q THEN q - p + 1 ELSE 0
          /\ \A k \in 1..(q - p + 1) : u[k] = text[p + k - 1]
      BY <1>6, <2>1, <2>2, SubSeqProperties
    <2>4. QED
      BY <2>1, <2>3
  <1>8. /\ v \in Seq(Sym) /\ Len(v) = j - 1 - i + 1
        /\ \A k \in 1..(j - 1 - i + 1) : v[k] = t[i + k - 1]
    BY <1>1, <1>5, <1>6, SubSeqProperties
  <1>9. PICK c \in Nat : c = j - i
    BY <1>3
  <1>10. q - p + 1 = c /\ j - 1 - i + 1 = c
    BY <1>2, <1>3, <1>4, <1>9
  <1>11. ASSUME NEW k \in 1..c PROVE u[k] = v[k]
    <2>1. u[k] = text[p + k - 1] /\ v[k] = t[i + k - 1]
      BY <1>7, <1>8, <1>10
    <2>2. i + k - 1 \in 1..n /\ p + k - 1 = a + (i + k - 1) - 1
      BY <1>2, <1>3, <1>4, <1>9
    <2>3. QED
      BY <1>2, <2>1, <2>2
  <1>12. Len(u) = c /\ Len(v) = c
    BY <1>7, <1>8, <1>10
  <1>13. u = v
    BY <1>7, <1>8, <1>11, <1>12, SeqEqual
  <1>14. QED
    BY <1>4, <1>6, <1>13

(* The number of a line that is in order. *)
LEMMA LineParseNumber ==
  ASSUME ListInv, ParseNumber, NEW l, LineHere(l, from), ReadingLine(l)
  PROVE  ReadingLine(l)'
  <1>1. pc = "number"
    BY DEF ParseNumber
  <1>2. PICK w \in WordsOf(who) :
          NumberLine(who, w, l) /\ cmd = w.cmd /\ pos = from + Len(w.text)
    BY <1>1 DEF ReadingLine
  <1>3. PICK t, first : t = l.text /\ first = Len(w.text) + 1
    OBVIOUS
  <1>4. /\ text \in Seq(Sym) /\ Len(text) \in Nat /\ t \in Seq(Sym) /\ Len(t) \in Nat \ {0}
        /\ Has(from, t) /\ from \in Nat \ {0} /\ pos \in Nat \ {0}
        /\ from + Len(t) - 1 <= Len(text)
        /\ \A j \in 1..Len(t) : text[from + j - 1] = t[j]
    BY <1>3, ListFacts DEF LineHere, Has
  <1>5. PICK last \in first..Len(t) :
          /\ \A j \in first..(last - 1) : t[j] \in ToSet(Digits)
          /\ ValueOf(SubSeq(t, first, last - 1)) \in 0..MaxUint
          /\ \/ last = Len(t) /\ t[last] \in Closers
             \/ who = "job" /\ t[last] = Blank /\ NoLineEnd(t, last)
    BY <1>2, <1>3, Zenon DEF NumberLine
  <1>6. first \in Nat \ {0} /\ pos = from + first - 1
    <2>1. w \in AllWords
      BY DEF WordsOf, AllWords
    <2>2. w.text \in Seq(Sym)
      BY <2>1, WordsApart
    <2>3. Len(w.text) \in Nat
      BY <2>2, LenProperties
    <2>4. QED
      BY <1>2, <1>3, <1>4, <2>3
  <1>7. PICK q : q = from + last - 1
    OBVIOUS
  <1>8. q \in pos..Len(text) /\ last \in 1..Len(t) /\ text[q] = t[last]
    <2>1. last \in 1..Len(t)
      BY <1>4, <1>6
    <2>2. q \in pos..Len(text)
      BY <1>4, <1>6, <1>7, <2>1
    <2>3. QED
      BY <1>4, <1>7, <2>1, <2>2
  <1>9. \A j \in pos..(q - 1) : text[j] \in ToSet(Digits)
    <2>1. ASSUME NEW j \in pos..(q - 1) PROVE text[j] \in ToSet(Digits)
      <3>1. PICK i : i = j - from + 1
        OBVIOUS
      <3>2. i \in first..(last - 1) /\ i \in 1..Len(t) /\ from + i - 1 = j
        BY <1>4, <1>6, <1>7, <1>8, <3>1
      <3>3. QED
        BY <1>4, <1>5, <3>2
    <2>2. QED
      BY <2>1
  <1>10. text[q] \notin ToSet(Digits)
    BY <1>5, <1>8, NoDigits DEF Closers
  <1>11. ReadUint(pos) = [value |-> ValueOf(SubSeq(text, pos, q - 1)), last |-> q,
                          pos |-> q + 1]
    BY <1>4, <1>8, <1>9, <1>10, NumberAt
  <1>12. SubSeq(text, pos, q - 1) = SubSeq(t, first, last - 1)
    <2>1. SubSeq(text, from + first - 1, from + last - 1 - 1) = SubSeq(t, first, last - 1)
      BY <1>4, <1>6, SamePart
    <2>2. pos = from + first - 1 /\ q - 1 = from + last - 1 - 1
      <3>1. from \in Nat /\ first \in Nat /\ last \in Nat
        BY <1>4, <1>6, <1>8
      <3>2. QED
        BY <1>6, <1>7, <3>1
    <2>3. QED
      BY <2>1, <2>2, Zenon
  <1>13. PICK n : n = ReadUint(pos)
    OBVIOUS
  <1>14. n.value \in 0..MaxUint /\ n.last = q /\ n.pos = q + 1
    <2>1. PICK c : c = ValueOf(SubSeq(t, first, last - 1)) /\ c \in 0..MaxUint
      BY <1>5
    <2>2. n = [value |-> c, last |-> q, pos |-> q + 1]
      BY <1>11, <1>12, <1>13, <2>1, Zenon
    <2>3. QED
      BY <2>1, <2>2
  <1>15. /\ ~(n.value > MaxUint \/ n.last > Len(text))
         /\ n.last > Len(text) \/ Is(n.last, Closers) <=> t[last] \in Closers
    <2>1. MaxUint \in Nat /\ q <= Len(text) /\ ~(q > Len(text))
      BY <1>4, <1>8, ReaderAssumption
    <2>2. ~(n.value > MaxUint)
      BY <1>14, <2>1
    <2>3. Is(q, Closers) <=> t[last] \in Closers
      BY <1>8, <2>1 DEF Is
    <2>4. QED
      BY <1>14, <2>1, <2>2, <2>3
  <1>16. PICK done : done = [Nothing EXCEPT !.cmd = cmd]
    OBVIOUS
  <1>17. done = l.means
    BY <1>2, <1>16, Zenon DEF NumberLine
  <1>18. IF who = "console" \/ t[last] \in Closers THEN Run(n.pos, done)
         ELSE IF Is(n.last, {Blank}) THEN Run(Cleanup(n.pos), done)
         ELSE GiveUp(n.pos)
    BY <1>13, <1>15, <1>16, Zenon DEF ParseNumber
  <1>19. CASE last = Len(t) /\ t[last] \in Closers
    <2>1. Run(q + 1, done)
      BY <1>14, <1>18, <1>19
    <2>2. pc' = "next" /\ run' = l.means /\ pos' = q + 1 /\ from' = from
      BY <1>17, <2>1 DEF Run
    <2>3. q + 1 = from + Len(t)
      BY <1>4, <1>7, <1>19
    <2>4. pc' \in {"next", "end"} /\ pos' = from' + Len(l.text)
      BY <1>3, <2>2, <2>3
    <2>5. QED
      BY <2>2, <2>4, LineDone
  <1>20. CASE who = "job" /\ t[last] = Blank /\ NoLineEnd(t, last)
    <2>1. who # "console" /\ t[last] \notin Closers
      BY <1>20, NoDigits
    <2>2. Is(n.last, {Blank})
      BY <1>4, <1>8, <1>14, <1>20 DEF Is
    <2>3. Run(Cleanup(q + 1), done)
      BY <1>14, <1>18, <2>1, <2>2
    <2>4. PICK j : j = last + 1
      OBVIOUS
    <2>5. j \in 1..(Len(t) + 1) /\ q + 1 = from + j - 1
      BY <1>4, <1>7, <1>8, <2>4
    <2>6. NoLineEnd(t, j)
      <3>1. \A i \in j..(Len(t) - 1) : i \in last..(Len(t) - 1)
        BY <1>4, <1>8, <2>4
      <3>2. QED
        BY <1>20, <3>1 DEF NoLineEnd
    <2>7. j = Len(t) + 1 => t[Len(t)] # NL
      <3>1. j = Len(t) + 1 => last = Len(t)
        BY <1>4, <1>8, <2>4
      <3>2. NL \in Closers
        BY DEF Closers
      <3>3. QED
        BY <2>1, <3>1, <3>2
    <2>8. Cleanup(q + 1) = from + Len(l.text)
      BY <1>3, <2>5, <2>6, <2>7, CleanupLine
    <2>9. pc' = "next" /\ run' = l.means /\ pos' = Cleanup(q + 1) /\ from' = from
      BY <1>17, <2>3 DEF Run
    <2>10. pc' \in {"next", "end"} /\ pos' = from' + Len(l.text)
      BY <2>8, <2>9
    <2>11. QED
      BY <2>9, <2>10, LineDone
  <1>21. QED
    BY <1>5, <1>19, <1>20

(* The end of the text. *)
LEMMA LineEnd ==
  ASSUME ListInv, EndOfCommands, NEW l, ReadingLine(l)
  PROVE  ReadingLine(l)'
  <1>1. /\ pc = "next" /\ pc' = "end" /\ pos' = pos /\ run' = run /\ from' = from
    BY DEF EndOfCommands
  <1>2. pc' \notin {"open", "pairs", "keys", "close", "number"}
    BY <1>1
  <1>3. Between' => Between
    BY <1>1 DEF Between
  <1>4. Between => run' = l.means /\ pos' = from' + Len(l.text)
    BY <1>1 DEF ReadingLine
  <1>5. QED
    BY <1>2, <1>3, <1>4 DEF ReadingLine

(* No step breaks the reading of a line that is in order. *)
LEMMA LineKept ==
  ASSUME ListInv, TextInv, LineInv, [Next]_vars
  PROVE  LineInv'
  <1>1. who' = who /\ lines' = lines
    BY SameText
  <1>2. \A i \in DOMAIN lines : LineStart(i)' = LineStart(i)
    BY TextKept
  <1>3. SUFFICES ASSUME NEW i \in DOMAIN lines, LineStart(i) = from',
                        InOrder(who, lines[i]), NEW l, l = lines[i]
                 PROVE  ReadingLine(l)'
    BY <1>1, <1>2 DEF LineInv
  <1>4. LineHere(l, LineStart(i))
    <2>1. PICK t : t = l.text /\ t = lines[i].text
      BY <1>3
    <2>2. /\ t \in Seq(Sym) /\ Len(t) \in Nat \ {0} /\ Has(LineStart(i), t)
          /\ t[Len(t)] # NL => LineStart(i) + Len(t) = Len(text) + 1
      BY <2>1, LinePlace
    <2>3. QED
      BY <1>3, <2>1, <2>2 DEF LineHere, ListInv
  <1>5. CASE GetNext
    <2>1. from' = pos
      BY <1>5 DEF GetNext
    <2>2. QED
      BY <1>3, <1>4, <1>5, <2>1, LineGetNext
  <1>6. ASSUME from' = from PROVE ReadingLine(l) /\ LineHere(l, from)
    BY <1>3, <1>4, <1>6 DEF LineInv
  <1>7. CASE EndOfCommands
    <2>1. from' = from
      BY <1>7 DEF EndOfCommands
    <2>2. QED
      BY <1>6, <1>7, <2>1, LineEnd
  <1>8. CASE Open
    <2>1. from' = from
      BY <1>8 DEF Open, GiveUp, Run, Parsing
    <2>2. QED
      BY <1>6, <1>8, <2>1, LineOpen
  <1>9. CASE ParsePair
    <2>1. from' = from
      BY <1>9 DEF ParsePair, GiveUp, Run, Parsing
    <2>2. QED
      BY <1>6, <1>9, <2>1, LineParsePair
  <1>10. CASE ParseKey
    <2>1. from' = from
      BY <1>10 DEF ParseKey, GiveUp, Run, Parsing
    <2>2. QED
      BY <1>6, <1>10, <2>1, LineParseKey
  <1>11. CASE Close
    <2>1. from' = from
      BY <1>11 DEF Close, GiveUp, Run
    <2>2. QED
      BY <1>6, <1>11, <2>1, LineClose
  <1>12. CASE ParseNumber
    <2>1. from' = from
      BY <1>12 DEF ParseNumber, GiveUp, Run
    <2>2. QED
      BY <1>6, <1>12, <2>1, LineParseNumber
  <1>13. CASE UNCHANGED vars
    <2>1. from' = from
      BY <1>13 DEF vars
    <2>2. ReadingLine(l)
      BY <1>6, <2>1
    <2>3. QED
      BY <1>13, <2>2 DEF vars, ReadingLine, ReadingList, Between
  <1>14. QED
    BY <1>5, <1>7, <1>8, <1>9, <1>10, <1>11, <1>12, <1>13 DEF Next

(* Every line that is in order and that get_next is called on is run as it  *)
(* says, and the next call is at the line behind it: LinesStandAlone for    *)
(* job files and consoles of every length.                                  *)
THEOREM GoodLinesRun == Spec => []LinesStandAlone
  <1>1. Init => ListInv /\ TextInv /\ LineInv
    <2>1. SUFFICES ASSUME Init PROVE ListInv /\ TextInv /\ LineInv
      OBVIOUS
    <2>2. ListInv /\ TextInv
      <3>1. ListInv
        BY <2>1, InitList
      <3>2. TextInv
        BY <2>1, Zenon DEF Init, TextInv
      <3>3. QED
        BY <3>1, <3>2
    <2>3. pc = "next" /\ ~Between
      <3>1. pc = "next" /\ pos = 1 /\ from = 1
        BY <2>1, Zenon DEF Init
      <3>2. QED
        BY <3>1 DEF Between
    <2>4. LineInv
      BY <2>3 DEF LineInv, ReadingLine
    <2>5. QED
      BY <2>2, <2>4
  <1>2. ListInv /\ TextInv /\ LineInv /\ [Next]_vars => (ListInv /\ TextInv /\ LineInv)'
    BY ListKept, TextKept, LineKept
  <1>3. ListInv /\ LineInv => LinesStandAlone
    BY DEF ListInv, LineInv, ReadingLine, LinesStandAlone
  <1>4. QED
    BY <1>1, <1>2, <1>3, PTL DEF Spec
=============================================================================
