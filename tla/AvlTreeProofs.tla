--------------------------- MODULE AvlTreeProofs ---------------------------
(***************************************************************************)
(* Theorems about AvlTree, for any keys and descriptors: after any         *)
(* insertions and removals the tree is a balanced search tree, its walk    *)
(* meets every key once and in order, and it implements SubscriberMap.     *)
(*                                                                         *)
(* Holds(t, S) says that t is an AVL tree with the entries S.  It is the   *)
(* least relation that is closed under the building of a node out of two   *)
(* such trees, so that what is kept by that building is true of all of     *)
(* them: this takes the place of an induction over trees.                  *)
(***************************************************************************)
EXTENDS AvlTree, SequenceTheorems, WellFoundedInduction, TLAPS

(* A non-empty set of numbers has a least one. *)
LEMMA LeastNumber ==
  ASSUME NEW S \in SUBSET Nat, S # {}
  PROVE  \E m \in S : \A n \in S : m <= n
  <1> DEFINE R == OpToRel(<, Nat)
  <1>1. PICK m \in S : \A n \in S : <<n, m>> \notin R
    <2> HIDE DEF R
    <2>1. IsWellFoundedOn(R, Nat)
      BY NatLessThanWellFounded DEF R
    <2>2. QED
      BY <2>1, WFMin
  <1>2. ASSUME NEW n \in S
        PROVE  m <= n
    <2>1. n \in Nat /\ m \in Nat /\ ~(n < m)
      BY <1>1 DEF OpToRel
    <2>2. QED
      BY <2>1
  <1>3. QED
    BY <1>2
-----------------------------------------------------------------------------
(* The sets of trees *)

(* The trees with one level more than those of X. *)
Level(X) ==
  {Null} \cup [key : Keys, fd : Fds, left : X, right : X, height : Nat]

(* g is, up to n, the sets of trees by their levels. *)
LevelsUpTo(n, g) ==
  \A i \in 0..n : g[i] = IF i = 0 THEN {Null} ELSE Level(g[i - 1])

(* There is such a function for every n, *)
LEMMA LevelsExist ==
  ASSUME NEW N \in Nat
  PROVE  \E g : LevelsUpTo(N, g)
  <1> DEFINE Bad == {n \in Nat : ~\E g : LevelsUpTo(n, g)}
  <1>1. ASSUME Bad # {} PROVE FALSE
    <2>1. PICK n \in Bad : \A m \in Bad : n <= m
      <3>1. Bad \in SUBSET Nat
        OBVIOUS
      <3> HIDE DEF Bad
      <3>2. QED
        BY <1>1, <3>1, LeastNumber
    <2>2. n \in Nat /\ ~\E g : LevelsUpTo(n, g)
      OBVIOUS
    <2>3. CASE n = 0
      <3>1. LevelsUpTo(0, [i \in {0} |-> {Null}])
        BY DEF LevelsUpTo
      <3>2. QED
        BY <2>2, <2>3, <3>1
    <2>4. CASE n # 0
      <3>1. n - 1 \in Nat /\ ~(n <= n - 1)
        BY <2>2, <2>4
      <3>2. n - 1 \notin Bad
        BY <2>1, <3>1
      <3>3. PICK g : LevelsUpTo(n - 1, g)
        BY <3>1, <3>2
      <3> DEFINE f == [i \in 0..n |-> IF i = n THEN Level(g[n - 1]) ELSE g[i]]
      <3>4. ASSUME NEW i \in 0..n
            PROVE  f[i] = IF i = 0 THEN {Null} ELSE Level(f[i - 1])
        <4>1. CASE i = n
          <5>1. n - 1 \in 0..n /\ n - 1 # n /\ n \in 0..n
            BY <2>2, <2>4
          <5>2. f[n] = Level(g[n - 1]) /\ f[n - 1] = g[n - 1]
            BY <5>1
          <5>3. QED
            BY <2>4, <4>1, <5>2
        <4>2. CASE i # n
          <5>1. i \in 0..(n - 1)
            BY <2>2, <4>2
          <5>2. g[i] = IF i = 0 THEN {Null} ELSE Level(g[i - 1])
            BY <3>3, <5>1 DEF LevelsUpTo
          <5>3. i = 0 \/ (i - 1 \in 0..n /\ i - 1 # n)
            BY <2>2, <5>1
          <5>4. f[i] = g[i] /\ (i # 0 => f[i - 1] = g[i - 1])
            BY <4>2, <5>3
          <5>5. QED
            BY <5>2, <5>4
        <4>3. QED
          BY <4>1, <4>2
      <3>5. LevelsUpTo(n, f)
        BY <3>4 DEF LevelsUpTo
      <3>6. QED
        BY <2>2, <3>5
    <2>5. QED
      BY <2>3, <2>4
  <1>2. N \notin Bad
    BY <1>1
  <1>3. QED
    BY <1>2

(* they agree with each other, *)
LEMMA LevelsAgree ==
  ASSUME NEW n \in Nat, NEW m \in Nat, n <= m, NEW f, NEW g,
         LevelsUpTo(n, f), LevelsUpTo(m, g)
  PROVE  f[n] = g[n]
  <1> DEFINE Bad == {i \in 0..n : f[i] # g[i]}
  <1>1. ASSUME Bad # {} PROVE FALSE
    <2>1. PICK i \in Bad : \A j \in Bad : i <= j
      <3>1. Bad \in SUBSET Nat
        OBVIOUS
      <3> HIDE DEF Bad
      <3>2. QED
        BY <1>1, <3>1, LeastNumber
    <2>2. i \in 0..n /\ i \in 0..m /\ f[i] # g[i]
      OBVIOUS
    <2>3. f[i] = IF i = 0 THEN {Null} ELSE Level(f[i - 1])
      BY <2>2 DEF LevelsUpTo
    <2>4. g[i] = IF i = 0 THEN {Null} ELSE Level(g[i - 1])
      BY <2>2 DEF LevelsUpTo
    <2>5. i = 0 \/ f[i - 1] = g[i - 1]
      <3>1. i # 0 => i - 1 \in 0..n /\ ~(i <= i - 1)
        BY <2>2
      <3>2. QED
        BY <2>1, <3>1
    <2>6. QED
      BY <2>2, <2>3, <2>4, <2>5
  <1>2. n \notin Bad /\ n \in 0..n
    BY <1>1
  <1>3. QED
    BY <1>2

(* so Trees is what its definition says it is. *)
LEMMA TreesLevels ==
  /\ Trees[0] = {Null}
  /\ \A h \in Nat : h # 0 => Trees[h] = Level(Trees[h - 1])
  <1> DEFINE Is(g) == g = [h \in Nat |-> IF h = 0 THEN {Null} ELSE Level(g[h - 1])]
             G == [n \in Nat |-> (CHOOSE g : LevelsUpTo(n, g))[n]]
  <1>1. Trees = CHOOSE g : Is(g)
    BY DEF Trees, Level
  <1>2. ASSUME NEW n \in Nat
        PROVE  G[n] = IF n = 0 THEN {Null} ELSE Level(G[n - 1])
    <2>1. PICK f : f = (CHOOSE g : LevelsUpTo(n, g))
      OBVIOUS
    <2>2. LevelsUpTo(n, f) /\ G[n] = f[n]
      BY <2>1, LevelsExist
    <2>3. f[n] = IF n = 0 THEN {Null} ELSE Level(f[n - 1])
      BY <2>2 DEF LevelsUpTo
    <2>4. CASE n = 0
      BY <2>2, <2>3, <2>4
    <2>5. CASE n # 0
      <3>1. n - 1 \in Nat /\ n - 1 <= n
        BY <2>5
      <3>2. PICK e : e = (CHOOSE g : LevelsUpTo(n - 1, g))
        OBVIOUS
      <3>3. LevelsUpTo(n - 1, e) /\ G[n - 1] = e[n - 1]
        BY <3>1, <3>2, LevelsExist
      <3>4. e[n - 1] = f[n - 1]
        BY <2>2, <3>1, <3>3, LevelsAgree
      <3>5. QED
        BY <2>2, <2>3, <2>5, <3>3, <3>4
    <2>6. QED
      BY <2>4, <2>5
  <1>3. Is(G)
    <2>1. G = [h \in Nat |-> G[h]]
      OBVIOUS
    <2> HIDE DEF G
    <2>2. QED
      BY <1>2, <2>1
  <1>4. Is(Trees)
    <2> HIDE DEF Is
    <2>1. QED
      BY <1>1, <1>3
  <1>5. QED
    <2>1. \A h \in Nat : Trees[h] = IF h = 0 THEN {Null} ELSE Level(Trees[h - 1])
      BY <1>4
    <2>2. QED
      BY <2>1

(* A tree of at most m levels is one of at most n, if n is not less. *)
LEMMA TreesGrow ==
  ASSUME NEW m \in Nat, NEW n \in Nat, m <= n
  PROVE  Trees[m] \subseteq Trees[n]
  <1> DEFINE Bad == {i \in Nat : ~(Trees[i] \subseteq Trees[i + 1])}
  <1>1. ASSUME Bad # {} PROVE FALSE
    <2>1. PICK i \in Bad : \A j \in Bad : i <= j
      <3>1. Bad \in SUBSET Nat
        OBVIOUS
      <3> HIDE DEF Bad
      <3>2. QED
        BY <1>1, <3>1, LeastNumber
    <2>2. i \in Nat /\ i + 1 \in Nat /\ i + 1 # 0 /\ i + 1 - 1 = i
          /\ ~(Trees[i] \subseteq Trees[i + 1])
      OBVIOUS
    <2>3. Trees[i + 1] = Level(Trees[i])
      BY <2>2, TreesLevels
    <2>4. CASE i = 0
      BY <2>2, <2>3, <2>4, TreesLevels DEF Level
    <2>5. CASE i # 0
      <3>1. i - 1 \in Nat /\ ~(i <= i - 1) /\ i - 1 + 1 = i
        BY <2>2, <2>5
      <3>2. i - 1 \notin Bad
        BY <2>1, <3>1
      <3>3. Trees[i - 1] \subseteq Trees[i]
        BY <3>1, <3>2
      <3>4. Trees[i] = Level(Trees[i - 1])
        BY <2>2, <2>5, TreesLevels
      <3>5. \A X, Y : X \subseteq Y => Level(X) \subseteq Level(Y)
        BY DEF Level
      <3>6. QED
        BY <2>2, <2>3, <3>3, <3>4, <3>5
    <2>6. QED
      BY <2>4, <2>5
  <1> DEFINE Late == {i \in Nat : m <= i /\ ~(Trees[m] \subseteq Trees[i])}
  <1>2. ASSUME Late # {} PROVE FALSE
    <2>1. PICK i \in Late : \A j \in Late : i <= j
      <3>1. Late \in SUBSET Nat
        OBVIOUS
      <3> HIDE DEF Late
      <3>2. QED
        BY <1>2, <3>1, LeastNumber
    <2>2. i \in Nat /\ m <= i /\ ~(Trees[m] \subseteq Trees[i]) /\ i # m
      OBVIOUS
    <2>3. i - 1 \in Nat /\ m <= i - 1 /\ ~(i <= i - 1) /\ i - 1 + 1 = i
      BY <2>2
    <2>4. i - 1 \notin Late /\ i - 1 \notin Bad
      BY <1>1, <2>1, <2>3
    <2>5. Trees[m] \subseteq Trees[i - 1] /\ Trees[i - 1] \subseteq Trees[i]
      BY <2>3, <2>4
    <2>6. QED
      BY <2>2, <2>5
  <1>3. n \notin Late
    BY <1>2
  <1>4. QED
    BY <1>3
-----------------------------------------------------------------------------
(* Nodes *)

Node(k, f, l, r, h) ==
  [key |-> k, fd |-> f, left |-> l, right |-> r, height |-> h]

(* The fields of a node; and Null is none. *)
LEMMA NodeFields ==
  ASSUME NEW k, NEW f, NEW l, NEW r, NEW h, NEW n, n = Node(k, f, l, r, h)
  PROVE  /\ n.key = k /\ n.fd = f /\ n.left = l /\ n.right = r /\ n.height = h
         /\ n # Null
         /\ Height(n) = h
  <1>1. "key" \in DOMAIN n /\ DOMAIN Null = 1..0 /\ "key" \notin 1..0
    BY DEF Node, Null
  <1>2. n # Null
    BY <1>1
  <1>3. QED
    BY <1>2 DEF Node, Height

(* A node with one field changed, *)
LEMMA NodeChanges ==
  ASSUME NEW k, NEW f, NEW l, NEW r, NEW h, NEW n, n = Node(k, f, l, r, h), NEW x
  PROVE  /\ [n EXCEPT !.left = x] = Node(k, f, x, r, h)
         /\ [n EXCEPT !.right = x] = Node(k, f, l, x, h)
         /\ [n EXCEPT !.height = x] = Node(k, f, l, r, x)
  <1>1. [n EXCEPT !.left = x] = Node(k, f, x, r, h)
    BY DEF Node
  <1>2. [n EXCEPT !.right = x] = Node(k, f, l, x, h)
    BY DEF Node
  <1>3. [n EXCEPT !.height = x] = Node(k, f, l, r, x)
    BY DEF Node
  <1>4. QED
    BY <1>1, <1>2, <1>3

(* or with the key and the descriptor of another. *)
LEMMA NodeReplaced ==
  ASSUME NEW k, NEW f, NEW l, NEW r, NEW h, NEW n, n = Node(k, f, l, r, h), NEW m
  PROVE  Replaced(n, m) = Node(m.key, m.fd, l, r, h)
  <1>1. PICK x, y : x = m.key /\ y = m.fd
    OBVIOUS
  <1>2. [n EXCEPT !.key = x, !.fd = y] = [[n EXCEPT !.key = x] EXCEPT !.fd = y]
    OBVIOUS
  <1>3. [n EXCEPT !.key = x] = Node(x, f, l, r, h)
    BY DEF Node
  <1>4. [Node(x, f, l, r, h) EXCEPT !.fd = y] = Node(x, y, l, r, h)
    BY DEF Node
  <1>5. Replaced(n, m) = [n EXCEPT !.key = x, !.fd = y]
    BY <1>1, Zenon DEF Replaced
  <1>6. QED
    BY <1>1, <1>2, <1>3, <1>4, <1>5

(* What BalanceNode is made of, for nodes. *)
LEMMA NodeUpdates ==
  ASSUME NEW k, NEW f, NEW l, NEW r, NEW h, NEW n, n = Node(k, f, l, r, h)
  PROVE  /\ HeightUpdated(n) = Node(k, f, l, r, Taller(Height(l), Height(r)) + 1)
         /\ GetBalance(n) = Height(l) - Height(r)
  <1>1. n.left = l /\ n.right = r /\ n # Null
    BY NodeFields
  <1>2. HeightUpdated(n) = Node(k, f, l, r, Taller(Height(l), Height(r)) + 1)
    <2>1. PICK i : i = Taller(Height(n.left), Height(n.right)) + 1
      OBVIOUS
    <2>2. [n EXCEPT !.height = i] = Node(k, f, l, r, i)
      BY DEF Node
    <2>3. HeightUpdated(n) = [n EXCEPT !.height = i]
      BY <2>1 DEF HeightUpdated
    <2>4. QED
      BY <1>1, <2>1, <2>2, <2>3
  <1>3. GetBalance(n) = Height(l) - Height(r)
    BY <1>1 DEF GetBalance
  <1>4. QED
    BY <1>2, <1>3

(* Below a tree of h levels there are trees of one level less. *)
LEMMA TreesBelow ==
  ASSUME NEW h \in Nat, NEW n \in Trees[h], n # Null
  PROVE  /\ h - 1 \in Nat
         /\ n.left \in Trees[h - 1] /\ n.right \in Trees[h - 1]
         /\ n.left \in Trees[h] /\ n.right \in Trees[h]
         /\ n.key \in Keys /\ n.fd \in Fds /\ n.height \in Nat
         /\ n = Node(n.key, n.fd, n.left, n.right, n.height)
  <1>1. h # 0
    BY TreesLevels
  <1>2. h - 1 \in Nat /\ h - 1 <= h
    BY <1>1
  <1>3. n \in [key : Keys, fd : Fds, left : Trees[h - 1], right : Trees[h - 1], height : Nat]
    BY <1>1, TreesLevels DEF Level
  <1>4. Trees[h - 1] \subseteq Trees[h]
    BY <1>2, TreesGrow
  <1>5. QED
    BY <1>2, <1>3, <1>4 DEF Node

(* And a node with such trees below it is a tree. *)
LEMMA TreesAbove ==
  ASSUME NEW h \in Nat, NEW k \in Keys, NEW f \in Fds, NEW l \in Trees[h], NEW r \in Trees[h],
         NEW i \in Nat
  PROVE  Node(k, f, l, r, i) \in Trees[h + 1]
  <1>1. h + 1 \in Nat /\ h + 1 # 0 /\ h + 1 - 1 = h
    OBVIOUS
  <1>2. Trees[h + 1] = Level(Trees[h])
    BY <1>1, TreesLevels
  <1>3. QED
    BY <1>2 DEF Level, Node

(* Null is a tree of any number of levels, *)
LEMMA NullTree ==
  /\ \A h \in Nat : Null \in Trees[h]
  /\ Height(Null) = 0
  <1>1. ASSUME NEW h \in Nat PROVE Null \in Trees[h]
    <2>1. 0 <= h /\ 0 \in Nat
      OBVIOUS
    <2>2. QED
      BY <2>1, TreesGrow, TreesLevels
  <1>2. QED
    BY <1>1 DEF Height
-----------------------------------------------------------------------------
(* AVL trees with their entries *)

TreeSet == UNION {Trees[h] : h \in Nat}
Space == TreeSet \X SUBSET (Keys \X Fds)

(* The conditions under which a node is put over two trees. *)
Fits(l, L, k, f, r, R) ==
  /\ k \in Keys /\ f \in Fds
  /\ \A e \in L : e[1] < k
  /\ \A e \in R : k < e[1]
  /\ Height(l) - Height(r) \in {-1, 0, 1}

Over(l, k, f, r) == Node(k, f, l, r, Taller(Height(l), Height(r)) + 1)

Closed(X) ==
  /\ <<Null, {}>> \in X
  /\ \A l, L, k, f, r, R :
       <<l, L>> \in X /\ <<r, R>> \in X /\ Fits(l, L, k, f, r, R)
       => <<Over(l, k, f, r), L \cup {<<k, f>>} \cup R>> \in X

Holds(t, S) == \A X \in SUBSET Space : Closed(X) => <<t, S>> \in X

(* The heights of trees are numbers. *)
LEMMA TreeHeights ==
  ASSUME NEW t \in TreeSet
  PROVE  Height(t) \in Nat
  <1>1. PICK h \in Nat : t \in Trees[h]
    BY DEF TreeSet
  <1>2. CASE t = Null
    BY <1>2, NullTree
  <1>3. CASE t # Null
    BY <1>1, <1>3, TreesBelow DEF Height
  <1>4. QED
    BY <1>2, <1>3

(* Taller is the maximum. *)
LEMMA TallerFacts ==
  ASSUME NEW a \in Nat, NEW b \in Nat
  PROVE  /\ Taller(a, b) \in {a, b} /\ Taller(a, b) \in Nat
         /\ a <= Taller(a, b) /\ b <= Taller(a, b)
  BY DEF Taller

(* The space is closed, so that what Holds is in it. *)
LEMMA SpaceClosed == Closed(Space)
  <1>1. <<Null, {}>> \in Space
    BY NullTree DEF Space, TreeSet
  <1>2. ASSUME NEW l, NEW L, NEW k, NEW f, NEW r, NEW R,
               <<l, L>> \in Space, <<r, R>> \in Space, Fits(l, L, k, f, r, R)
        PROVE  <<Over(l, k, f, r), L \cup {<<k, f>>} \cup R>> \in Space
    <2>1. l \in TreeSet /\ r \in TreeSet /\ L \subseteq Keys \X Fds /\ R \subseteq Keys \X Fds
      BY <1>2 DEF Space
    <2>2. PICK i \in Nat, j \in Nat : l \in Trees[i] /\ r \in Trees[j]
      BY <2>1 DEF TreeSet
    <2>3. PICK h \in Nat : i <= h /\ j <= h
      BY TallerFacts
    <2>4. l \in Trees[h] /\ r \in Trees[h]
      BY <2>2, <2>3, TreesGrow
    <2>5. k \in Keys /\ f \in Fds
      BY <1>2 DEF Fits
    <2>6. Taller(Height(l), Height(r)) + 1 \in Nat
      <3>1. Height(l) \in Nat /\ Height(r) \in Nat
        BY <2>1, TreeHeights
      <3>2. QED
        BY <3>1 DEF Taller
    <2>7. Over(l, k, f, r) \in Trees[h + 1]
      BY <2>4, <2>5, <2>6, TreesAbove DEF Over
    <2>8. h + 1 \in Nat
      OBVIOUS
    <2>9. Over(l, k, f, r) \in TreeSet
      BY <2>7, <2>8 DEF TreeSet
    <2>10. L \cup {<<k, f>>} \cup R \in SUBSET (Keys \X Fds)
      BY <2>1, <2>5
    <2>11. QED
      BY <2>9, <2>10 DEF Space
  <1>3. QED
    BY <1>1, <1>2 DEF Closed

(* Holds is closed, *)
LEMMA HoldsNull == Holds(Null, {})
  BY DEF Holds, Closed

(* under the building of nodes as well, *)
LEMMA HoldsOver ==
  ASSUME NEW l, NEW L, NEW k, NEW f, NEW r, NEW R,
         Holds(l, L), Holds(r, R), Fits(l, L, k, f, r, R)
  PROVE  Holds(Over(l, k, f, r), L \cup {<<k, f>>} \cup R)
  <1>1. ASSUME NEW X \in SUBSET Space, Closed(X)
        PROVE  <<Over(l, k, f, r), L \cup {<<k, f>>} \cup R>> \in X
    <2>1. <<l, L>> \in X /\ <<r, R>> \in X
      BY <1>1 DEF Holds
    <2>2. QED
      BY <1>1, <2>1 DEF Closed
  <1>2. QED
    BY <1>1 DEF Holds

(* and there is nothing else in it than what was built that way. *)
Built(t, S) ==
  \/ t = Null /\ S = {}
  \/ \E l, L, k, f, r, R :
       /\ Holds(l, L) /\ Holds(r, R) /\ Fits(l, L, k, f, r, R)
       /\ t = Over(l, k, f, r) /\ S = L \cup {<<k, f>>} \cup R

(* An AVL tree is built, and a tree of the space. *)
LEMMA HoldsBuilt ==
  ASSUME NEW t, NEW S, Holds(t, S)
  PROVE  /\ Built(t, S)
         /\ t \in TreeSet /\ S \in SUBSET (Keys \X Fds) /\ Height(t) \in Nat
  <1> DEFINE X == {x \in Space : Holds(x[1], x[2]) /\ Built(x[1], x[2])}
  <1>0. <<t, S>> \in Space
    BY SpaceClosed DEF Holds
  <1>1. <<Null, {}>> \in X
    BY SpaceClosed, HoldsNull DEF Closed, Built
  <1>2. ASSUME NEW l, NEW L, NEW k, NEW f, NEW r, NEW R,
               <<l, L>> \in X, <<r, R>> \in X, Fits(l, L, k, f, r, R)
        PROVE  <<Over(l, k, f, r), L \cup {<<k, f>>} \cup R>> \in X
    <2>1. Holds(l, L) /\ Holds(r, R) /\ <<l, L>> \in Space /\ <<r, R>> \in Space
      BY <1>2
    <2>2. PICK n, N : n = Over(l, k, f, r) /\ N = L \cup {<<k, f>>} \cup R
      OBVIOUS
    <2>3. Holds(n, N)
      BY <1>2, <2>1, <2>2, HoldsOver
    <2>4. Built(n, N)
      BY <1>2, <2>1, <2>2 DEF Built
    <2>5. <<n, N>> \in Space
      BY <1>2, <2>1, <2>2, SpaceClosed DEF Closed
    <2>6. QED
      BY <2>2, <2>3, <2>4, <2>5
  <1>3. Closed(X)
    <2> HIDE DEF X
    <2>1. QED
      BY <1>1, <1>2 DEF Closed
  <1>4. <<t, S>> \in X
    BY <1>3 DEF Holds
  <1>5. QED
    BY <1>0, <1>4, TreeHeights DEF Space
-----------------------------------------------------------------------------
(* Rotations *)

(* A node whose height is updated is the node over its two subtrees. *)
LEMMA UpdatedOver ==
  ASSUME NEW k, NEW f, NEW l, NEW r, NEW h, NEW n, n = Node(k, f, l, r, h)
  PROVE  HeightUpdated(n) = Over(l, k, f, r)
  BY NodeUpdates DEF Over

(* right_rotate: what was left of the left subtree's root stays left, what *)
(* was right of it comes under the old root.                               *)
LEMMA RotatesRight ==
  ASSUME NEW k, NEW f, NEW c, NEW h, NEW j, NEW e, NEW a, NEW b, NEW i,
         NEW x, x = Node(j, e, a, b, i), NEW y, y = Node(k, f, x, c, h)
  PROVE  RightRotate(y) = Over(a, j, e, Over(b, k, f, c))
  <1>1. y.left = x /\ x.right = b
    BY NodeFields
  <1>2. [y EXCEPT !.left = b] = Node(k, f, b, c, h)
    BY DEF Node
  <1>3. HeightUpdated([y EXCEPT !.left = b]) = Over(b, k, f, c)
    BY <1>2, UpdatedOver
  <1>4. PICK z : z = HeightUpdated([y EXCEPT !.left = b])
    OBVIOUS
  <1>5. [x EXCEPT !.right = z] = Node(j, e, a, z, i)
    BY DEF Node
  <1>6. HeightUpdated([x EXCEPT !.right = z]) = Over(a, j, e, z)
    BY <1>5, UpdatedOver
  <1>7. RightRotate(y) = HeightUpdated([x EXCEPT !.right = z])
    BY <1>1, <1>4, Zenon DEF RightRotate
  <1>8. QED
    BY <1>3, <1>4, <1>6, <1>7

(* left_rotate, the mirror image. *)
LEMMA RotatesLeft ==
  ASSUME NEW k, NEW f, NEW c, NEW h, NEW j, NEW e, NEW a, NEW b, NEW i,
         NEW x, x = Node(j, e, a, b, i), NEW y, y = Node(k, f, c, x, h)
  PROVE  LeftRotate(y) = Over(Over(c, k, f, a), j, e, b)
  <1>1. y.right = x /\ x.left = a
    BY NodeFields
  <1>2. [y EXCEPT !.right = a] = Node(k, f, c, a, h)
    BY DEF Node
  <1>3. HeightUpdated([y EXCEPT !.right = a]) = Over(c, k, f, a)
    BY <1>2, UpdatedOver
  <1>4. PICK z : z = HeightUpdated([y EXCEPT !.right = a])
    OBVIOUS
  <1>5. [x EXCEPT !.left = z] = Node(j, e, z, b, i)
    BY DEF Node
  <1>6. HeightUpdated([x EXCEPT !.left = z]) = Over(z, j, e, b)
    BY <1>5, UpdatedOver
  <1>7. LeftRotate(y) = HeightUpdated([x EXCEPT !.left = z])
    BY <1>1, <1>4, Zenon DEF LeftRotate
  <1>8. QED
    BY <1>3, <1>4, <1>6, <1>7

(* A tree of some height is a node over two trees. *)
LEMMA HoldsNode ==
  ASSUME NEW t, NEW S, Holds(t, S), t # Null
  PROVE  \E l, L, k, f, r, R :
           /\ Holds(l, L) /\ Holds(r, R) /\ Fits(l, L, k, f, r, R)
           /\ t = Over(l, k, f, r) /\ S = L \cup {<<k, f>>} \cup R
           /\ Height(l) \in Nat /\ Height(r) \in Nat /\ Height(t) = Taller(Height(l), Height(r)) + 1
  <1>1. PICK l, L, k, f, r, R :
           /\ Holds(l, L) /\ Holds(r, R) /\ Fits(l, L, k, f, r, R)
           /\ t = Over(l, k, f, r) /\ S = L \cup {<<k, f>>} \cup R
    BY HoldsBuilt DEF Built
  <1>2. Height(l) \in Nat /\ Height(r) \in Nat
    BY <1>1, HoldsBuilt
  <1>3. Height(t) = Taller(Height(l), Height(r)) + 1
    BY <1>1, NodeFields DEF Over
  <1>4. QED
    BY <1>1, <1>2, <1>3

(* Only Null has height 0. *)
LEMMA HoldsHigh ==
  ASSUME NEW t, NEW S, Holds(t, S)
  PROVE  /\ Height(t) \in Nat
         /\ Height(t) # 0 <=> t # Null
  <1>1. Height(t) \in Nat
    BY HoldsBuilt
  <1>2. CASE t = Null
    BY <1>1, <1>2, NullTree
  <1>3. CASE t # Null
    <2>1. PICK a, b : a \in Nat /\ b \in Nat /\ Height(t) = Taller(a, b) + 1
      BY <1>3, HoldsNode
    <2>2. Taller(a, b) \in Nat
      BY <2>1 DEF Taller
    <2>3. QED
      BY <1>1, <1>3, <2>1, <2>2
  <1>4. QED
    BY <1>2, <1>3

(* The keys of the entries of a tree are integers. *)
LEMMA HoldsKeys ==
  ASSUME NEW t, NEW S, Holds(t, S), NEW e \in S
  PROVE  e[1] \in Keys /\ e[2] \in Fds /\ e[1] \in Int /\ e = <<e[1], e[2]>>
  <1>1. S \in SUBSET (Keys \X Fds)
    BY HoldsBuilt
  <1>2. Keys \subseteq Int
    BY AvlAssumption DEF Keys
  <1>3. PICK k \in Keys, f \in Fds : e = <<k, f>>
    BY <1>1
  <1>4. e[1] = k /\ e[2] = f
    BY <1>3
  <1>5. QED
    BY <1>2, <1>3, <1>4

(* The order of the keys around a node. *)
Ordered(L, k, f, R) ==
  /\ k \in Keys /\ f \in Fds
  /\ \A e \in L : e[1] < k
  /\ \A e \in R : k < e[1]

(* The four cases of balance_node: what it makes of a node whose left      *)
(* subtree is too high,                                                    *)
LEMMA LeftCases ==
  ASSUME NEW l, NEW L, NEW k, NEW f, NEW r, NEW R, Holds(l, L), Holds(r, R),
         Ordered(L, k, f, R), Height(l) = Height(r) + 2
  PROVE  \E n : /\ BalanceNode(Over(l, k, f, r)) = n
                /\ Holds(n, L \cup {<<k, f>>} \cup R)
                /\ Height(n) \in {Height(l), Height(l) + 1}
  <1>0. Height(l) \in Nat /\ Height(r) \in Nat /\ l # Null
    BY HoldsHigh
  <1>1. PICK a, A, j, e, b, B :
          /\ Holds(a, A) /\ Holds(b, B) /\ Fits(a, A, j, e, b, B)
          /\ l = Over(a, j, e, b) /\ L = A \cup {<<j, e>>} \cup B
          /\ Height(a) \in Nat /\ Height(b) \in Nat /\ Height(l) = Taller(Height(a), Height(b)) + 1
    BY <1>0, HoldsNode
  <1>2. PICK m, h : m = Over(l, k, f, r) /\ m = Node(k, f, l, r, h)
    BY DEF Over
  <1>3. PICK i : l = Node(j, e, a, b, i)
    BY <1>1 DEF Over
  <1>4. /\ GetBalance(m) = 2 /\ GetBalance(m) > 1 /\ m.left = l
        /\ GetBalance(l) = Height(a) - Height(b)
    <2>1. GetBalance(m) = Height(l) - Height(r)
      BY <1>2, NodeUpdates
    <2>2. GetBalance(l) = Height(a) - Height(b)
      BY <1>3, NodeUpdates
    <2>3. m.left = l
      BY <1>2, NodeFields
    <2>4. QED
      BY <1>0, <2>1, <2>2, <2>3
  <1>5. /\ k \in Keys /\ f \in Fds /\ j \in Keys /\ e \in Fds /\ k \in Int /\ j \in Int
        /\ j < k
    <2>1. <<j, e>> \in L
      BY <1>1
    <2>2. k \in Keys /\ f \in Fds /\ j \in Keys /\ e \in Fds /\ j < k
      BY <1>1, <2>1 DEF Ordered, Fits
    <2>3. QED
      BY <2>2, AvlAssumption DEF Keys
  <1>6. \A x \in R : x[1] \in Int /\ k < x[1] /\ j < x[1]
    BY <1>5, HoldsKeys DEF Ordered
  <1>7. \A x \in B : x[1] \in Int /\ j < x[1] /\ x[1] < k
    <2>1. \A x \in B : x \in L
      BY <1>1
    <2>2. QED
      BY <1>1, <2>1, HoldsKeys DEF Fits, Ordered
  <1>8. \A x \in A : x[1] \in Int /\ x[1] < j
    BY <1>1, HoldsKeys DEF Fits
  <1>9. CASE Height(a) >= Height(b)
    <2>1. BalanceNode(m) = RightRotate(m)
      BY <1>0, <1>1, <1>4, <1>9 DEF BalanceNode
    <2>2. RightRotate(m) = Over(a, j, e, Over(b, k, f, r))
      BY <1>2, <1>3, RotatesRight
    <2>3. PICK n : n = Over(b, k, f, r)
      OBVIOUS
    <2>4. Height(l) = Height(a) + 1 /\ Height(b) \in {Height(a), Height(a) - 1}
      BY <1>1, <1>9 DEF Fits, Taller
    <2>5. Fits(b, B, k, f, r, R)
      BY <1>0, <1>1, <1>5, <1>6, <1>7, <2>4 DEF Fits
    <2>6. Holds(n, B \cup {<<k, f>>} \cup R)
      BY <1>1, <2>3, <2>5, HoldsOver
    <2>7. Height(n) = Height(b) + 1
      <3>1. Height(n) = Taller(Height(b), Height(r)) + 1
        BY <2>3, NodeFields DEF Over
      <3>2. QED
        BY <1>0, <1>1, <2>4, <3>1 DEF Taller
    <2>8. Fits(a, A, j, e, n, B \cup {<<k, f>>} \cup R)
      BY <1>1, <1>5, <1>6, <1>7, <1>8, <2>4, <2>7 DEF Fits
    <2>9. PICK q : q = Over(a, j, e, n)
      OBVIOUS
    <2>10. Holds(q, A \cup {<<j, e>>} \cup (B \cup {<<k, f>>} \cup R))
      BY <1>1, <2>6, <2>8, <2>9, HoldsOver
    <2>11. A \cup {<<j, e>>} \cup (B \cup {<<k, f>>} \cup R) = L \cup {<<k, f>>} \cup R
      BY <1>1
    <2>12. Height(q) \in {Height(l), Height(l) + 1}
      <3>1. Height(q) = Taller(Height(a), Height(n)) + 1
        BY <2>9, NodeFields DEF Over
      <3>2. QED
        BY <1>0, <1>1, <2>4, <2>7, <3>1 DEF Taller
    <2>13. BalanceNode(Over(l, k, f, r)) = q
      BY <1>2, <2>1, <2>2, <2>3, <2>9
    <2>14. QED
      BY <2>10, <2>11, <2>12, <2>13
  <1>10. CASE Height(a) < Height(b)
    <2>1. PICK u : u = LeftRotate(l)
      OBVIOUS
    <2>2. BalanceNode(m) = RightRotate([m EXCEPT !.left = u])
      <3>1. ~(GetBalance(l) >= 0)
        BY <1>1, <1>4, <1>10
      <3>2. QED
        BY <1>4, <2>1, <3>1, Zenon DEF BalanceNode
    <2>3. b # Null
      BY <1>1, <1>10, HoldsHigh
    <2>4. PICK c, C, q, g, d, D :
            /\ Holds(c, C) /\ Holds(d, D) /\ Fits(c, C, q, g, d, D)
            /\ b = Over(c, q, g, d) /\ B = C \cup {<<q, g>>} \cup D
            /\ Height(c) \in Nat /\ Height(d) \in Nat /\ Height(b) = Taller(Height(c), Height(d)) + 1
      BY <1>1, <2>3, HoldsNode
    <2>5. PICK o : b = Node(q, g, c, d, o)
      BY <2>4 DEF Over
    <2>6. u = Over(Over(a, j, e, c), q, g, d)
      BY <1>3, <2>1, <2>5, RotatesLeft
    <2>7. PICK v : u = Node(q, g, Over(a, j, e, c), d, v)
      BY <2>6 DEF Over
    <2>8. [m EXCEPT !.left = u] = Node(k, f, u, r, h)
      BY <1>2 DEF Node
    <2>9. RightRotate([m EXCEPT !.left = u]) = Over(Over(a, j, e, c), q, g, Over(d, k, f, r))
      BY <2>7, <2>8, RotatesRight
    <2>10. PICK x, y, z : x = Over(a, j, e, c) /\ y = Over(d, k, f, r) /\ z = Over(x, q, g, y)
      OBVIOUS
    <2>11. /\ q \in Keys /\ g \in Fds /\ q \in Int /\ j < q /\ q < k
           /\ \A s \in C : s[1] \in Int /\ j < s[1] /\ s[1] < q
           /\ \A s \in D : s[1] \in Int /\ q < s[1] /\ s[1] < k
      <3>1. <<q, g>> \in B /\ C \subseteq B /\ D \subseteq B
        BY <2>4
      <3>2. q \in Int /\ j < q /\ q < k
        BY <1>7, <3>1
      <3>3. QED
        BY <1>7, <2>4, <3>1, <3>2 DEF Fits
    <2>12. /\ Height(b) = Height(a) + 1 /\ Height(a) = Height(r) /\ Height(l) = Height(b) + 1
           /\ Height(c) \in {Height(a), Height(a) - 1} /\ Height(d) \in {Height(a), Height(a) - 1}
           /\ Height(c) = Height(a) \/ Height(d) = Height(a)
      <3>1. Height(a) - Height(b) \in {-1, 0, 1} /\ Height(c) - Height(d) \in {-1, 0, 1}
        BY <1>1, <2>4 DEF Fits
      <3>2. Height(b) = Height(a) + 1
        BY <1>1, <1>10, <3>1
      <3>3. Height(l) = Height(b) + 1 /\ Height(a) = Height(r)
        BY <1>0, <1>1, <3>2 DEF Taller
      <3>4. QED
        BY <1>1, <2>4, <3>1, <3>2, <3>3 DEF Taller
    <2>13. Fits(a, A, j, e, c, C) /\ Fits(d, D, k, f, r, R)
      BY <1>0, <1>1, <1>5, <1>6, <1>8, <2>4, <2>11, <2>12 DEF Fits
    <2>14. Holds(x, A \cup {<<j, e>>} \cup C) /\ Holds(y, D \cup {<<k, f>>} \cup R)
      BY <1>1, <2>4, <2>10, <2>13, HoldsOver
    <2>15. Height(x) = Height(a) + 1 /\ Height(y) = Height(a) + 1
      <3>1. /\ Height(x) = Taller(Height(a), Height(c)) + 1
            /\ Height(y) = Taller(Height(d), Height(r)) + 1
        BY <2>10, NodeFields DEF Over
      <3>2. QED
        BY <1>0, <1>1, <2>4, <2>12, <3>1 DEF Taller
    <2>16. Fits(x, A \cup {<<j, e>>} \cup C, q, g, y, D \cup {<<k, f>>} \cup R)
      <3>1. \A s \in A \cup {<<j, e>>} \cup C : s[1] < q
        BY <1>5, <1>8, <2>11
      <3>2. \A s \in D \cup {<<k, f>>} \cup R : q < s[1]
        BY <1>5, <1>6, <2>11
      <3>3. Height(x) - Height(y) \in {-1, 0, 1}
        BY <1>1, <2>15
      <3>4. QED
        BY <2>11, <3>1, <3>2, <3>3 DEF Fits
    <2>17. Holds(z, (A \cup {<<j, e>>} \cup C) \cup {<<q, g>>} \cup (D \cup {<<k, f>>} \cup R))
      BY <2>10, <2>14, <2>16, HoldsOver
    <2>18. (A \cup {<<j, e>>} \cup C) \cup {<<q, g>>} \cup (D \cup {<<k, f>>} \cup R)
           = L \cup {<<k, f>>} \cup R
      BY <1>1, <2>4
    <2>19. Height(z) \in {Height(l), Height(l) + 1}
      <3>1. Height(z) = Taller(Height(x), Height(y)) + 1
        BY <2>10, NodeFields DEF Over
      <3>2. QED
        BY <1>1, <2>12, <2>15, <3>1 DEF Taller
    <2>20. BalanceNode(Over(l, k, f, r)) = z
      BY <1>2, <2>2, <2>9, <2>10
    <2>21. QED
      BY <2>17, <2>18, <2>19, <2>20
  <1>11. Height(a) >= Height(b) \/ Height(a) < Height(b)
    BY <1>1
  <1>12. QED
    BY <1>9, <1>10, <1>11

(* and of one whose right subtree is. *)
LEMMA RightCases ==
  ASSUME NEW l, NEW L, NEW k, NEW f, NEW r, NEW R, Holds(l, L), Holds(r, R),
         Ordered(L, k, f, R), Height(r) = Height(l) + 2
  PROVE  \E n : /\ BalanceNode(Over(l, k, f, r)) = n
                /\ Holds(n, L \cup {<<k, f>>} \cup R)
                /\ Height(n) \in {Height(r), Height(r) + 1}
  <1>0. Height(l) \in Nat /\ Height(r) \in Nat /\ r # Null
    BY HoldsHigh
  <1>1. PICK a, A, j, e, b, B :
          /\ Holds(a, A) /\ Holds(b, B) /\ Fits(a, A, j, e, b, B)
          /\ r = Over(a, j, e, b) /\ R = A \cup {<<j, e>>} \cup B
          /\ Height(a) \in Nat /\ Height(b) \in Nat /\ Height(r) = Taller(Height(a), Height(b)) + 1
    BY <1>0, HoldsNode
  <1>2. PICK m, h : m = Over(l, k, f, r) /\ m = Node(k, f, l, r, h)
    BY DEF Over
  <1>3. PICK i : r = Node(j, e, a, b, i)
    BY <1>1 DEF Over
  <1>4. /\ GetBalance(m) = -2 /\ GetBalance(m) < -1 /\ ~(GetBalance(m) > 1) /\ m.right = r
        /\ GetBalance(r) = Height(a) - Height(b)
    <2>1. GetBalance(m) = Height(l) - Height(r)
      BY <1>2, NodeUpdates
    <2>2. GetBalance(r) = Height(a) - Height(b)
      BY <1>3, NodeUpdates
    <2>3. m.right = r
      BY <1>2, NodeFields
    <2>4. QED
      BY <1>0, <2>1, <2>2, <2>3
  <1>5. /\ k \in Keys /\ f \in Fds /\ j \in Keys /\ e \in Fds /\ k \in Int /\ j \in Int
        /\ k < j
    <2>1. <<j, e>> \in R
      BY <1>1
    <2>2. k \in Keys /\ f \in Fds /\ j \in Keys /\ e \in Fds /\ k < j
      BY <1>1, <2>1 DEF Ordered, Fits
    <2>3. QED
      BY <2>2, AvlAssumption DEF Keys
  <1>6. \A x \in L : x[1] \in Int /\ x[1] < k /\ x[1] < j
    BY <1>5, HoldsKeys DEF Ordered
  <1>7. \A x \in A : x[1] \in Int /\ x[1] < j /\ k < x[1]
    <2>1. \A x \in A : x \in R
      BY <1>1
    <2>2. QED
      BY <1>1, <2>1, HoldsKeys DEF Fits, Ordered
  <1>8. \A x \in B : x[1] \in Int /\ j < x[1]
    BY <1>1, HoldsKeys DEF Fits
  <1>9. CASE Height(b) >= Height(a)
    <2>1. BalanceNode(m) = LeftRotate(m)
      BY <1>0, <1>1, <1>4, <1>9 DEF BalanceNode
    <2>2. LeftRotate(m) = Over(Over(l, k, f, a), j, e, b)
      BY <1>2, <1>3, RotatesLeft
    <2>3. PICK n : n = Over(l, k, f, a)
      OBVIOUS
    <2>4. Height(r) = Height(b) + 1 /\ Height(a) \in {Height(b), Height(b) - 1}
      BY <1>1, <1>9 DEF Fits, Taller
    <2>5. Fits(l, L, k, f, a, A)
      BY <1>0, <1>1, <1>5, <1>6, <1>7, <2>4 DEF Fits
    <2>6. Holds(n, L \cup {<<k, f>>} \cup A)
      BY <1>1, <2>3, <2>5, HoldsOver
    <2>7. Height(n) = Height(a) + 1
      <3>1. Height(n) = Taller(Height(l), Height(a)) + 1
        BY <2>3, NodeFields DEF Over
      <3>2. QED
        BY <1>0, <1>1, <2>4, <3>1 DEF Taller
    <2>8. Fits(n, L \cup {<<k, f>>} \cup A, j, e, b, B)
      BY <1>1, <1>5, <1>6, <1>7, <1>8, <2>4, <2>7 DEF Fits
    <2>9. PICK q : q = Over(n, j, e, b)
      OBVIOUS
    <2>10. Holds(q, (L \cup {<<k, f>>} \cup A) \cup {<<j, e>>} \cup B)
      BY <1>1, <2>6, <2>8, <2>9, HoldsOver
    <2>11. (L \cup {<<k, f>>} \cup A) \cup {<<j, e>>} \cup B = L \cup {<<k, f>>} \cup R
      BY <1>1
    <2>12. Height(q) \in {Height(r), Height(r) + 1}
      <3>1. Height(q) = Taller(Height(n), Height(b)) + 1
        BY <2>9, NodeFields DEF Over
      <3>2. QED
        BY <1>0, <1>1, <2>4, <2>7, <3>1 DEF Taller
    <2>13. BalanceNode(Over(l, k, f, r)) = q
      BY <1>2, <2>1, <2>2, <2>3, <2>9
    <2>14. QED
      BY <2>10, <2>11, <2>12, <2>13
  <1>10. CASE Height(b) < Height(a)
    <2>1. PICK u : u = RightRotate(r)
      OBVIOUS
    <2>2. BalanceNode(m) = LeftRotate([m EXCEPT !.right = u])
      <3>1. ~(GetBalance(r) <= 0)
        BY <1>1, <1>4, <1>10
      <3>2. QED
        BY <1>4, <2>1, <3>1, Zenon DEF BalanceNode
    <2>3. a # Null
      BY <1>1, <1>10, HoldsHigh
    <2>4. PICK c, C, q, g, d, D :
            /\ Holds(c, C) /\ Holds(d, D) /\ Fits(c, C, q, g, d, D)
            /\ a = Over(c, q, g, d) /\ A = C \cup {<<q, g>>} \cup D
            /\ Height(c) \in Nat /\ Height(d) \in Nat /\ Height(a) = Taller(Height(c), Height(d)) + 1
      BY <1>1, <2>3, HoldsNode
    <2>5. PICK o : a = Node(q, g, c, d, o)
      BY <2>4 DEF Over
    <2>6. u = Over(c, q, g, Over(d, j, e, b))
      BY <1>3, <2>1, <2>5, RotatesRight
    <2>7. PICK v : u = Node(q, g, c, Over(d, j, e, b), v)
      BY <2>6 DEF Over
    <2>8. [m EXCEPT !.right = u] = Node(k, f, l, u, h)
      BY <1>2 DEF Node
    <2>9. LeftRotate([m EXCEPT !.right = u]) = Over(Over(l, k, f, c), q, g, Over(d, j, e, b))
      BY <2>7, <2>8, RotatesLeft
    <2>10. PICK x, y, z : x = Over(l, k, f, c) /\ y = Over(d, j, e, b) /\ z = Over(x, q, g, y)
      OBVIOUS
    <2>11. /\ q \in Keys /\ g \in Fds /\ q \in Int /\ k < q /\ q < j
           /\ \A s \in C : s[1] \in Int /\ k < s[1] /\ s[1] < q
           /\ \A s \in D : s[1] \in Int /\ q < s[1] /\ s[1] < j
      <3>1. <<q, g>> \in A /\ C \subseteq A /\ D \subseteq A
        BY <2>4
      <3>2. q \in Int /\ k < q /\ q < j
        BY <1>7, <3>1
      <3>3. QED
        BY <1>7, <2>4, <3>1, <3>2 DEF Fits
    <2>12. /\ Height(a) = Height(b) + 1 /\ Height(b) = Height(l) /\ Height(r) = Height(a) + 1
           /\ Height(c) \in {Height(b), Height(b) - 1} /\ Height(d) \in {Height(b), Height(b) - 1}
           /\ Height(c) = Height(b) \/ Height(d) = Height(b)
      <3>1. Height(a) - Height(b) \in {-1, 0, 1} /\ Height(c) - Height(d) \in {-1, 0, 1}
        BY <1>1, <2>4 DEF Fits
      <3>2. Height(a) = Height(b) + 1
        BY <1>1, <1>10, <3>1
      <3>3. Height(r) = Height(a) + 1 /\ Height(b) = Height(l)
        BY <1>0, <1>1, <3>2 DEF Taller
      <3>4. QED
        BY <1>1, <2>4, <3>1, <3>2, <3>3 DEF Taller
    <2>13. Fits(l, L, k, f, c, C) /\ Fits(d, D, j, e, b, B)
      BY <1>0, <1>1, <1>5, <1>6, <1>8, <2>4, <2>11, <2>12 DEF Fits
    <2>14. Holds(x, L \cup {<<k, f>>} \cup C) /\ Holds(y, D \cup {<<j, e>>} \cup B)
      BY <1>1, <2>4, <2>10, <2>13, HoldsOver
    <2>15. Height(x) = Height(b) + 1 /\ Height(y) = Height(b) + 1
      <3>1. /\ Height(x) = Taller(Height(l), Height(c)) + 1
            /\ Height(y) = Taller(Height(d), Height(b)) + 1
        BY <2>10, NodeFields DEF Over
      <3>2. QED
        BY <1>0, <1>1, <2>4, <2>12, <3>1 DEF Taller
    <2>16. Fits(x, L \cup {<<k, f>>} \cup C, q, g, y, D \cup {<<j, e>>} \cup B)
      <3>1. \A s \in L \cup {<<k, f>>} \cup C : s[1] < q
        BY <1>5, <1>6, <2>11
      <3>2. \A s \in D \cup {<<j, e>>} \cup B : q < s[1]
        BY <1>5, <1>8, <2>11
      <3>3. Height(x) - Height(y) \in {-1, 0, 1}
        BY <1>1, <2>15
      <3>4. QED
        BY <2>11, <3>1, <3>2, <3>3 DEF Fits
    <2>17. Holds(z, (L \cup {<<k, f>>} \cup C) \cup {<<q, g>>} \cup (D \cup {<<j, e>>} \cup B))
      BY <2>10, <2>14, <2>16, HoldsOver
    <2>18. (L \cup {<<k, f>>} \cup C) \cup {<<q, g>>} \cup (D \cup {<<j, e>>} \cup B)
           = L \cup {<<k, f>>} \cup R
      BY <1>1, <2>4
    <2>19. Height(z) \in {Height(r), Height(r) + 1}
      <3>1. Height(z) = Taller(Height(x), Height(y)) + 1
        BY <2>10, NodeFields DEF Over
      <3>2. QED
        BY <1>1, <2>12, <2>15, <3>1 DEF Taller
    <2>20. BalanceNode(Over(l, k, f, r)) = z
      BY <1>2, <2>2, <2>9, <2>10
    <2>21. QED
      BY <2>17, <2>18, <2>19, <2>20
  <1>11. Height(b) >= Height(a) \/ Height(b) < Height(a)
    BY <1>1
  <1>12. QED
    BY <1>9, <1>10, <1>11

(* In all cases: a node whose subtrees differ in height by two at most     *)
(* becomes an AVL tree with the same entries, and as high as the node was  *)
(* or one level lower; only where nothing has to be done is this certain.  *)
Restored(n, S, a, b) ==
  /\ Holds(n, S)
  /\ Height(n) \in {Taller(a, b), Taller(a, b) + 1}
  /\ a - b \in -1..1 => Height(n) = Taller(a, b) + 1

(* Rebalanced restores it: the entries stay, and the height is one of two. *)
LEMMA Rebalances ==
  ASSUME NEW l, NEW L, NEW k, NEW f, NEW r, NEW R, Holds(l, L), Holds(r, R),
         Ordered(L, k, f, R), Height(l) - Height(r) \in -2..2,
         NEW h, NEW n, n = Node(k, f, l, r, h)
  PROVE  Restored(Rebalanced(n), L \cup {<<k, f>>} \cup R, Height(l), Height(r))
  <1>0. Height(l) \in Nat /\ Height(r) \in Nat
    BY HoldsHigh
  <1>1. PICK m : m = Over(l, k, f, r)
    OBVIOUS
  <1>2. Rebalanced(n) = BalanceNode(m)
    BY <1>1, UpdatedOver DEF Rebalanced
  <1>3. CASE Height(l) - Height(r) \in -1..1
    <2>1. GetBalance(m) = Height(l) - Height(r)
      BY <1>1, NodeUpdates DEF Over
    <2>2. BalanceNode(m) = m
      BY <1>0, <1>3, <2>1 DEF BalanceNode
    <2>3. Fits(l, L, k, f, r, R)
      BY <1>0, <1>3 DEF Fits, Ordered
    <2>4. Holds(m, L \cup {<<k, f>>} \cup R)
      BY <1>1, <2>3, HoldsOver
    <2>5. Height(m) = Taller(Height(l), Height(r)) + 1
      BY <1>1, NodeFields DEF Over
    <2>6. QED
      BY <1>2, <2>2, <2>4, <2>5 DEF Restored
  <1>4. CASE Height(l) = Height(r) + 2
    <2>1. Taller(Height(l), Height(r)) = Height(l) /\ Height(l) - Height(r) \notin -1..1
      BY <1>0, <1>4 DEF Taller
    <2>2. PICK z : /\ BalanceNode(m) = z
                   /\ Holds(z, L \cup {<<k, f>>} \cup R)
                   /\ Height(z) \in {Height(l), Height(l) + 1}
      BY <1>1, <1>4, LeftCases
    <2>3. QED
      BY <1>2, <2>1, <2>2 DEF Restored
  <1>5. CASE Height(r) = Height(l) + 2
    <2>1. Taller(Height(l), Height(r)) = Height(r) /\ Height(l) - Height(r) \notin -1..1
      BY <1>0, <1>5 DEF Taller
    <2>2. PICK z : /\ BalanceNode(m) = z
                   /\ Holds(z, L \cup {<<k, f>>} \cup R)
                   /\ Height(z) \in {Height(r), Height(r) + 1}
      BY <1>1, <1>5, RightCases
    <2>3. QED
      BY <1>2, <2>1, <2>2 DEF Restored
  <1>6. QED
    BY <1>0, <1>3, <1>4, <1>5
-----------------------------------------------------------------------------
(* The recursive functions *)

(* What InsertNode, MinValueNode, RemoveNode, Found and Walk do at a node, *)
(* given what the function g returns for its subtrees.                     *)
InsertStep(n, g, key, fd) ==
  IF n = Null THEN CreateNode(key, fd)
  ELSE IF key < n.key THEN Rebalanced([n EXCEPT !.left = g[n.left]])
  ELSE IF key > n.key THEN Rebalanced([n EXCEPT !.right = g[n.right]])
  ELSE n

MinStep(n, g) == IF n = Null \/ n.left = Null THEN n ELSE g[n.left]

RemoveStep(n, g) ==
  [k \in Keys |->
    IF n = Null THEN Null
    ELSE IF k < n.key THEN Rebalanced([n EXCEPT !.left = g[n.left][k]])
    ELSE IF k > n.key THEN Rebalanced([n EXCEPT !.right = g[n.right][k]])
    ELSE IF n.left = Null /\ n.right = Null THEN Null
    ELSE IF n.left = Null THEN Rebalanced(n.right)
    ELSE IF n.right = Null THEN Rebalanced(n.left)
    ELSE LET temp == MinValueNode(n.right)
         IN  Rebalanced([Replaced(n, temp) EXCEPT !.right = g[n.right][temp.key]])]

FoundStep(n, g, key) ==
  IF n = Null THEN Null
  ELSE IF key < n.key THEN g[n.left]
  ELSE IF key > n.key THEN g[n.right]
  ELSE n

WalkStep(n, g) == IF n = Null THEN <<>> ELSE g[n.left] \o <<n>> \o g[n.right]

(* The five of them, told apart by op.                                     *)
TreeStep(op, n, g, key, fd) ==
  IF op = 1 THEN InsertStep(n, g, key, fd)
  ELSE IF op = 2 THEN MinStep(n, g)
  ELSE IF op = 3 THEN RemoveStep(n, g)
  ELSE IF op = 4 THEN FoundStep(n, g, key)
  ELSE WalkStep(n, g)

(* A step depends on the function only at the subtrees, *)
LEMMA StepsAgree ==
  ASSUME NEW op, NEW n, NEW f, NEW g, NEW key, NEW fd,
         n # Null => f[n.left] = g[n.left] /\ f[n.right] = g[n.right]
  PROVE  TreeStep(op, n, f, key, fd) = TreeStep(op, n, g, key, fd)
  <1>1. CASE n = Null
    BY <1>1 DEF TreeStep, InsertStep, MinStep, RemoveStep, FoundStep, WalkStep
  <1>2. CASE n # Null
    <2>1. f[n.left] = g[n.left] /\ f[n.right] = g[n.right]
      BY <1>2
    <2>2. InsertStep(n, f, key, fd) = InsertStep(n, g, key, fd)
      BY <2>1, Zenon DEF InsertStep
    <2>3. MinStep(n, f) = MinStep(n, g)
      BY <2>1, Zenon DEF MinStep
    <2>4. RemoveStep(n, f) = RemoveStep(n, g)
      BY <2>1, Zenon DEF RemoveStep
    <2>5. FoundStep(n, f, key) = FoundStep(n, g, key)
      BY <2>1, Zenon DEF FoundStep
    <2>6. WalkStep(n, f) = WalkStep(n, g)
      BY <2>1, Zenon DEF WalkStep
    <2>7. QED
      BY <2>2, <2>3, <2>4, <2>5, <2>6 DEF TreeStep
  <1>3. QED
    BY <1>1, <1>2

(* so that there is a function that takes it at every tree.                *)
StepsUpTo(h, g, op, key, fd) ==
  \A n \in Trees[h] : g[n] = TreeStep(op, n, g, key, fd)

Steps(h, g, op, key, fd) == g = [n \in Trees[h] |-> TreeStep(op, n, g, key, fd)]

(* There is one for every operation. *)
LEMMA StepsExist ==
  ASSUME NEW H \in Nat, NEW op, NEW key, NEW fd
  PROVE  \E g : Steps(H, g, op, key, fd)
  <1> DEFINE Bad == {h \in Nat : ~\E g : StepsUpTo(h, g, op, key, fd)}
  <1>1. ASSUME Bad # {} PROVE FALSE
    <2>1. PICK h \in Bad : \A j \in Bad : h <= j
      <3>1. Bad \in SUBSET Nat
        OBVIOUS
      <3> HIDE DEF Bad
      <3>2. QED
        BY <1>1, <3>1, LeastNumber
    <2>2. h \in Nat /\ ~\E g : StepsUpTo(h, g, op, key, fd)
      OBVIOUS
    <2>3. PICK g : h = 0 \/ StepsUpTo(h - 1, g, op, key, fd)
      <3>1. h # 0 => h - 1 \in Nat /\ ~(h <= h - 1)
        BY <2>2
      <3>2. h = 0 \/ h - 1 \notin Bad
        BY <2>1, <3>1
      <3>3. QED
        BY <3>1, <3>2
    <2>4. PICK f : f = [n \in Trees[h] |-> TreeStep(op, n, g, key, fd)]
      OBVIOUS
    <2>5. ASSUME NEW n \in Trees[h]
          PROVE  f[n] = TreeStep(op, n, f, key, fd)
      <3>1. f[n] = TreeStep(op, n, g, key, fd)
        BY <2>4
      <3>2. ASSUME n # Null, NEW c, c \in Trees[h - 1], c \in Trees[h]
            PROVE  f[c] = g[c]
        <4>1. h # 0
          BY <2>5, <3>2, TreesLevels
        <4>2. g[c] = TreeStep(op, c, g, key, fd)
          BY <2>3, <3>2, <4>1 DEF StepsUpTo
        <4>3. f[c] = TreeStep(op, c, g, key, fd)
          BY <2>4, <3>2
        <4>4. QED
          BY <4>2, <4>3
      <3>3. n # Null => f[n.left] = g[n.left] /\ f[n.right] = g[n.right]
        BY <2>2, <3>2, TreesBelow
      <3>4. QED
        BY <3>1, <3>3, StepsAgree
    <2>6. QED
      BY <2>2, <2>5 DEF StepsUpTo
  <1>2. PICK g : StepsUpTo(H, g, op, key, fd)
    BY <1>1
  <1>3. PICK f : f = [n \in Trees[H] |-> TreeStep(op, n, g, key, fd)]
    OBVIOUS
  <1>4. ASSUME NEW n \in Trees[H]
        PROVE  TreeStep(op, n, g, key, fd) = TreeStep(op, n, f, key, fd)
    <2>1. n # Null => n.left \in Trees[H] /\ n.right \in Trees[H]
      BY TreesBelow
    <2>2. \A c \in Trees[H] : f[c] = g[c]
      BY <1>2, <1>3 DEF StepsUpTo
    <2>3. n # Null => g[n.left] = f[n.left] /\ g[n.right] = f[n.right]
      BY <2>1, <2>2
    <2>4. QED
      BY <2>3, StepsAgree
  <1>5. f = [n \in Trees[H] |-> TreeStep(op, n, f, key, fd)]
    BY <1>3, <1>4
  <1>6. QED
    BY <1>5 DEF Steps

(* Each operation of AvlTree applies such a function to the tree: insert_node, *)
LEMMA InsertNodeIs ==
  ASSUME NEW t, Height(t) \in Nat, NEW key, NEW fd
  PROVE  \E g : Steps(Height(t), g, 1, key, fd) /\ InsertNode(t, key, fd) = g[t]
  <1> DEFINE Is(g) == g = [n \in Trees[Height(t)] |-> InsertStep(n, g, key, fd)]
  <1>0. \A n, g : TreeStep(1, n, g, key, fd) = InsertStep(n, g, key, fd)
    BY DEF TreeStep
  <1>1. PICK f : Is(f)
    <2>1. PICK f : Steps(Height(t), f, 1, key, fd)
      BY StepsExist
    <2>2. QED
      BY <1>0, <2>1 DEF Steps
  <1>2. PICK g : g = CHOOSE x : Is(x)
    OBVIOUS
  <1>3. Is(g)
    <2> HIDE DEF Is
    <2>1. QED
      BY <1>1, <1>2
  <1>4. InsertNode(t, key, fd) = g[t]
    BY <1>2, Zenon DEF InsertNode, InsertStep
  <1>5. QED
    BY <1>0, <1>3, <1>4 DEF Steps

(* min_value_node, as such a function, *)
LEMMA MinValueNodeIs ==
  ASSUME NEW t, Height(t) \in Nat
  PROVE  \E g : Steps(Height(t), g, 2, 0, 0) /\ MinValueNode(t) = g[t]
  <1> DEFINE Is(g) == g = [n \in Trees[Height(t)] |-> MinStep(n, g)]
  <1>0. \A n, g : TreeStep(2, n, g, 0, 0) = MinStep(n, g)
    BY DEF TreeStep
  <1>1. PICK f : Is(f)
    <2>1. PICK f : Steps(Height(t), f, 2, 0, 0)
      BY StepsExist
    <2>2. QED
      BY <1>0, <2>1 DEF Steps
  <1>2. PICK g : g = CHOOSE x : Is(x)
    OBVIOUS
  <1>3. Is(g)
    <2> HIDE DEF Is
    <2>1. QED
      BY <1>1, <1>2
  <1>4. MinValueNode(t) = g[t]
    BY <1>2, Zenon DEF MinValueNode, MinStep
  <1>5. QED
    BY <1>0, <1>3, <1>4 DEF Steps

(* remove_node, *)
LEMMA RemoveNodeIs ==
  ASSUME NEW t, Height(t) \in Nat
  PROVE  \E g : /\ Steps(Height(t), g, 3, 0, 0)
                /\ \A key : RemoveNode(t, key) = g[t][key]
  <1> DEFINE Is(g) == g = [n \in Trees[Height(t)] |-> RemoveStep(n, g)]
  <1>0. \A n, g : TreeStep(3, n, g, 0, 0) = RemoveStep(n, g)
    BY DEF TreeStep
  <1>1. PICK f : Is(f)
    <2>1. PICK f : Steps(Height(t), f, 3, 0, 0)
      BY StepsExist
    <2>2. QED
      BY <1>0, <2>1 DEF Steps
  <1>2. PICK g : g = CHOOSE x : Is(x)
    OBVIOUS
  <1>3. Is(g)
    <2> HIDE DEF Is
    <2>1. QED
      BY <1>1, <1>2
  <1>4. \A key : RemoveNode(t, key) = g[t][key]
    BY <1>2, Zenon DEF RemoveNode, RemoveStep
  <1>5. QED
    BY <1>0, <1>3, <1>4 DEF Steps

(* has_key, *)
LEMMA FoundIs ==
  ASSUME NEW t, Height(t) \in Nat, NEW key
  PROVE  \E g : Steps(Height(t), g, 4, key, 0) /\ Found(t, key) = g[t]
  <1> DEFINE Is(g) == g = [n \in Trees[Height(t)] |-> FoundStep(n, g, key)]
  <1>0. \A n, g : TreeStep(4, n, g, key, 0) = FoundStep(n, g, key)
    BY DEF TreeStep
  <1>1. PICK f : Is(f)
    <2>1. PICK f : Steps(Height(t), f, 4, key, 0)
      BY StepsExist
    <2>2. QED
      BY <1>0, <2>1 DEF Steps
  <1>2. PICK g : g = CHOOSE x : Is(x)
    OBVIOUS
  <1>3. Is(g)
    <2> HIDE DEF Is
    <2>1. QED
      BY <1>1, <1>2
  <1>4. Found(t, key) = g[t]
    BY <1>2, Zenon DEF Found, FoundStep
  <1>5. QED
    BY <1>0, <1>3, <1>4 DEF Steps

(* and the walk. *)
LEMMA WalkIs ==
  ASSUME NEW t, Height(t) \in Nat
  PROVE  \E g : Steps(Height(t), g, 5, 0, 0) /\ Walk(t) = g[t]
  <1> DEFINE Is(g) == g = [n \in Trees[Height(t)] |-> WalkStep(n, g)]
  <1>0. \A n, g : TreeStep(5, n, g, 0, 0) = WalkStep(n, g)
    BY DEF TreeStep
  <1>1. PICK f : Is(f)
    <2>1. PICK f : Steps(Height(t), f, 5, 0, 0)
      BY StepsExist
    <2>2. QED
      BY <1>0, <2>1 DEF Steps
  <1>2. PICK g : g = CHOOSE x : Is(x)
    OBVIOUS
  <1>3. Is(g)
    <2> HIDE DEF Is
    <2>1. QED
      BY <1>1, <1>2
  <1>4. Walk(t) = g[t]
    BY <1>2, Zenon DEF Walk, WalkStep
  <1>5. QED
    BY <1>0, <1>3, <1>4 DEF Steps
-----------------------------------------------------------------------------
(* Induction over what Holds *)

(* A set that is closed under the building of nodes out of AVL trees       *)
(* contains every AVL tree with its entries.                               *)
Inductive(Y) ==
  /\ <<Null, {}>> \in Y
  /\ \A l, L, k, f, r, R :
       /\ Holds(l, L) /\ Holds(r, R) /\ Fits(l, L, k, f, r, R)
       /\ <<l, L>> \in Y /\ <<r, R>> \in Y
       /\ <<Over(l, k, f, r), L \cup {<<k, f>>} \cup R>> \in Space
       => <<Over(l, k, f, r), L \cup {<<k, f>>} \cup R>> \in Y

(* An inductive set has every AVL tree. *)
LEMMA HoldsInduction ==
  ASSUME NEW Y, Inductive(Y), NEW t, NEW S, Holds(t, S)
  PROVE  <<t, S>> \in Y
  <1> DEFINE X == {x \in Space : Holds(x[1], x[2]) /\ x \in Y}
  <1>1. <<Null, {}>> \in X
    BY SpaceClosed, HoldsNull DEF Closed, Inductive
  <1>2. ASSUME NEW l, NEW L, NEW k, NEW f, NEW r, NEW R,
               <<l, L>> \in X, <<r, R>> \in X, Fits(l, L, k, f, r, R)
        PROVE  <<Over(l, k, f, r), L \cup {<<k, f>>} \cup R>> \in X
    <2>1. /\ Holds(l, L) /\ Holds(r, R) /\ <<l, L>> \in Space /\ <<r, R>> \in Space
          /\ <<l, L>> \in Y /\ <<r, R>> \in Y
      BY <1>2
    <2>2. PICK n, N : n = Over(l, k, f, r) /\ N = L \cup {<<k, f>>} \cup R
      OBVIOUS
    <2>3. Holds(n, N)
      BY <1>2, <2>1, <2>2, HoldsOver
    <2>4. <<n, N>> \in Space
      BY <1>2, <2>1, <2>2, SpaceClosed DEF Closed
    <2>5. <<n, N>> \in Y
      BY <1>2, <2>1, <2>2, <2>4 DEF Inductive
    <2>6. QED
      BY <2>2, <2>3, <2>4, <2>5
  <1>3. Closed(X)
    <2> HIDE DEF X
    <2>1. QED
      BY <1>1, <1>2 DEF Closed
  <1>4. X \in SUBSET Space
    OBVIOUS
  <1>5. <<t, S>> \in X
    <2> HIDE DEF X
    <2>1. QED
      BY <1>3, <1>4 DEF Holds
  <1>6. QED
    BY <1>5

(* A node over two trees that Fit. *)
LEMMA OverFields ==
  ASSUME NEW l, NEW L, NEW k, NEW f, NEW r, NEW R, Holds(l, L), Holds(r, R),
         Fits(l, L, k, f, r, R), NEW n, n = Over(l, k, f, r)
  PROVE  /\ n # Null /\ n.key = k /\ n.fd = f /\ n.left = l /\ n.right = r
         /\ n = Node(k, f, l, r, Height(n))
         /\ n.height = Height(n)
         /\ Height(l) \in Nat /\ Height(r) \in Nat /\ Height(n) \in Nat
         /\ Height(n) = Taller(Height(l), Height(r)) + 1
         /\ Height(l) < Height(n) /\ Height(r) < Height(n)
         /\ Height(l) - Height(r) \in -1..1
         /\ Ordered(L, k, f, R)
         /\ k \in Keys /\ k \in Int /\ f \in Fds
  <1>1. Height(l) \in Nat /\ Height(r) \in Nat
    BY HoldsHigh
  <1>2. PICK h : n = Node(k, f, l, r, h) /\ h = Taller(Height(l), Height(r)) + 1
    BY DEF Over
  <1>3. /\ n # Null /\ n.key = k /\ n.fd = f /\ n.left = l /\ n.right = r
        /\ Height(n) = h /\ n.height = h
    BY <1>2, NodeFields
  <1>4. h \in Nat /\ Height(l) < h /\ Height(r) < h
    BY <1>1, <1>2 DEF Taller
  <1>5. k \in Keys /\ f \in Fds /\ Ordered(L, k, f, R) /\ Height(l) - Height(r) \in {-1, 0, 1}
    BY DEF Fits, Ordered
  <1>6. k \in Int
    BY <1>5, AvlAssumption DEF Keys
  <1>7. Height(l) - Height(r) \in -1..1
    BY <1>1, <1>5
  <1>8. QED
    BY <1>1, <1>2, <1>3, <1>4, <1>5, <1>6, <1>7

(* An AVL tree is one of as many levels as it is high. *)
LEMMA HoldsTrees ==
  ASSUME NEW t, NEW S, Holds(t, S)
  PROVE  t \in Trees[Height(t)]
  <1> DEFINE Y == {x \in Space : x[1] \in Trees[Height(x[1])]}
  <1>1. <<Null, {}>> \in Y
    BY SpaceClosed, NullTree DEF Closed
  <1>2. ASSUME NEW l, NEW L, NEW k, NEW f, NEW r, NEW R,
               Holds(l, L), Holds(r, R), Fits(l, L, k, f, r, R),
               <<l, L>> \in Y, <<r, R>> \in Y,
               <<Over(l, k, f, r), L \cup {<<k, f>>} \cup R>> \in Space
        PROVE  <<Over(l, k, f, r), L \cup {<<k, f>>} \cup R>> \in Y
    <2>1. PICK n : n = Over(l, k, f, r)
      OBVIOUS
    <2>2. PICK h : h = Height(n)
      OBVIOUS
    <2>3. /\ h \in Nat /\ h - 1 \in Nat /\ h - 1 + 1 = h
          /\ Height(l) \in Nat /\ Height(r) \in Nat /\ Height(l) <= h - 1 /\ Height(r) <= h - 1
          /\ k \in Keys /\ f \in Fds /\ n = Node(k, f, l, r, h)
      BY <1>2, <2>1, <2>2, OverFields
    <2>4. l \in Trees[Height(l)] /\ r \in Trees[Height(r)]
      BY <1>2
    <2>5. l \in Trees[h - 1] /\ r \in Trees[h - 1]
      BY <2>3, <2>4, TreesGrow
    <2>6. n \in Trees[h]
      BY <2>3, <2>5, TreesAbove
    <2>7. QED
      BY <1>2, <2>1, <2>2, <2>6
  <1>3. Inductive(Y)
    <2> HIDE DEF Y
    <2>1. QED
      BY <1>1, <1>2 DEF Inductive
  <1>4. <<t, S>> \in Y
    <2> HIDE DEF Y
    <2>1. QED
      BY <1>3, HoldsInduction
  <1>5. QED
    BY <1>4
-----------------------------------------------------------------------------
(* Insertion *)

(* The entries with key added, if it is not there.                         *)
With(S, key, fd) == IF \E e \in S : e[1] = key THEN S ELSE S \cup {<<key, fd>>}

(* The tree n is t after an insertion.                                     *)
Inserted(n, t, S, key, fd) ==
  /\ Holds(n, With(S, key, fd))
  /\ Height(n) \in {Height(t), Height(t) + 1}

(* Adding to the entries around a node's is adding to the side of the key. *)
LEMMA WithLess ==
  ASSUME NEW l, NEW L, NEW k, NEW f, NEW r, NEW R, Holds(l, L), Holds(r, R),
         Ordered(L, k, f, R), NEW key \in Keys, NEW fd \in Fds, key < k,
         NEW S, S = L \cup {<<k, f>>} \cup R
  PROVE  /\ With(S, key, fd) = With(L, key, fd) \cup {<<k, f>>} \cup R
         /\ Ordered(With(L, key, fd), k, f, R)
  <1>1. k \in Int /\ key \in Int
    BY AvlAssumption DEF Ordered, Keys
  <1>2. (\A e \in L : e[1] \in Int /\ e[1] < k) /\ (\A e \in R : e[1] \in Int /\ k < e[1])
    BY HoldsKeys DEF Ordered
  <1>3. (\E e \in S : e[1] = key) <=> \E e \in L : e[1] = key
    BY <1>1, <1>2
  <1>4. With(S, key, fd) = With(L, key, fd) \cup {<<k, f>>} \cup R
    BY <1>3 DEF With
  <1>5. \A e \in With(L, key, fd) : e[1] < k
    BY <1>2 DEF With
  <1>6. QED
    BY <1>4, <1>5 DEF Ordered

(* The same for a key that is greater than that of the node. *)
LEMMA WithMore ==
  ASSUME NEW l, NEW L, NEW k, NEW f, NEW r, NEW R, Holds(l, L), Holds(r, R),
         Ordered(L, k, f, R), NEW key \in Keys, NEW fd \in Fds, key > k,
         NEW S, S = L \cup {<<k, f>>} \cup R
  PROVE  /\ With(S, key, fd) = L \cup {<<k, f>>} \cup With(R, key, fd)
         /\ Ordered(L, k, f, With(R, key, fd))
  <1>1. k \in Int /\ key \in Int
    BY AvlAssumption DEF Ordered, Keys
  <1>2. (\A e \in L : e[1] \in Int /\ e[1] < k) /\ (\A e \in R : e[1] \in Int /\ k < e[1])
    BY HoldsKeys DEF Ordered
  <1>3. (\E e \in S : e[1] = key) <=> \E e \in R : e[1] = key
    BY <1>1, <1>2
  <1>4. With(S, key, fd) = L \cup {<<k, f>>} \cup With(R, key, fd)
    BY <1>3 DEF With
  <1>5. \A e \in With(R, key, fd) : k < e[1]
    BY <1>1, <1>2 DEF With
  <1>6. QED
    BY <1>4, <1>5 DEF Ordered

(* Insertion in one subtree and the rebalancing above it. *)
LEMMA InsertsOver ==
  ASSUME NEW l, NEW L, NEW k, NEW f, NEW r, NEW R, Holds(l, L), Holds(r, R),
         Fits(l, L, k, f, r, R), NEW t, t = Over(l, k, f, r),
         NEW g, NEW key \in Keys, NEW fd \in Fds,
         Inserted(g[l], l, L, key, fd), Inserted(g[r], r, R, key, fd)
  PROVE  Inserted(InsertStep(t, g, key, fd), t, L \cup {<<k, f>>} \cup R, key, fd)
  <1>1. PICK S : S = L \cup {<<k, f>>} \cup R
    OBVIOUS
  <1>2. /\ t # Null /\ t.key = k /\ t.left = l /\ t.right = r
        /\ t = Node(k, f, l, r, Height(t))
        /\ Height(l) \in Nat /\ Height(r) \in Nat /\ Height(t) \in Nat
        /\ Height(t) = Taller(Height(l), Height(r)) + 1
        /\ Height(l) - Height(r) \in -1..1
        /\ Ordered(L, k, f, R) /\ k \in Int
    BY OverFields
  <1>3. key \in Int
    BY AvlAssumption DEF Keys
  <1>4. CASE key < k
    <2>1. PICK a : a = g[l]
      OBVIOUS
    <2>2. Holds(a, With(L, key, fd)) /\ Height(a) \in {Height(l), Height(l) + 1}
      BY <2>1 DEF Inserted
    <2>3. [t EXCEPT !.left = a] = Node(k, f, a, r, Height(t))
      BY <1>2 DEF Node
    <2>4. InsertStep(t, g, key, fd) = Rebalanced([t EXCEPT !.left = a])
      BY <1>2, <1>4, <2>1, Zenon DEF InsertStep
    <2>5. PICK N, n : N = [t EXCEPT !.left = a] /\ n = Rebalanced(N)
      OBVIOUS
    <2>6. PICK W : W = With(L, key, fd)
      OBVIOUS
    <2>7. With(S, key, fd) = W \cup {<<k, f>>} \cup R /\ Ordered(W, k, f, R)
      <3>1. Ordered(L, k, f, R)
        BY <1>2
      <3>2. /\ With(S, key, fd) = With(L, key, fd) \cup {<<k, f>>} \cup R
            /\ Ordered(With(L, key, fd), k, f, R)
        BY <1>1, <1>4, <3>1, WithLess
      <3>3. QED
        BY <2>6, <3>2
    <2>8. Height(a) - Height(r) \in -2..2
      BY <1>2, <2>2
    <2>9. Restored(n, W \cup {<<k, f>>} \cup R, Height(a), Height(r))
      <3>1. Holds(a, W) /\ N = Node(k, f, a, r, Height(t))
        BY <2>2, <2>3, <2>5, <2>6
      <3>2. QED
        BY <2>5, <2>7, <2>8, <3>1, Rebalances
    <2>10. Height(n) \in {Height(t), Height(t) + 1}
      BY <1>2, <2>2, <2>9 DEF Restored, Taller
    <2>11. QED
      BY <1>1, <2>4, <2>5, <2>7, <2>9, <2>10 DEF Inserted, Restored
  <1>5. CASE key > k
    <2>1. PICK a : a = g[r]
      OBVIOUS
    <2>2. Holds(a, With(R, key, fd)) /\ Height(a) \in {Height(r), Height(r) + 1}
      BY <2>1 DEF Inserted
    <2>3. [t EXCEPT !.right = a] = Node(k, f, l, a, Height(t))
      BY <1>2 DEF Node
    <2>4. InsertStep(t, g, key, fd) = Rebalanced([t EXCEPT !.right = a])
      <3>1. ~(key < k)
        BY <1>2, <1>3, <1>5
      <3>2. QED
        BY <1>2, <1>5, <2>1, <3>1, Zenon DEF InsertStep
    <2>5. PICK N, n : N = [t EXCEPT !.right = a] /\ n = Rebalanced(N)
      OBVIOUS
    <2>6. PICK W : W = With(R, key, fd)
      OBVIOUS
    <2>7. With(S, key, fd) = L \cup {<<k, f>>} \cup W /\ Ordered(L, k, f, W)
      <3>1. Ordered(L, k, f, R)
        BY <1>2
      <3>2. /\ With(S, key, fd) = L \cup {<<k, f>>} \cup With(R, key, fd)
            /\ Ordered(L, k, f, With(R, key, fd))
        BY <1>1, <1>5, <3>1, WithMore
      <3>3. QED
        BY <2>6, <3>2
    <2>8. Height(l) - Height(a) \in -2..2
      BY <1>2, <2>2
    <2>9. Restored(n, L \cup {<<k, f>>} \cup W, Height(l), Height(a))
      <3>1. Holds(a, W) /\ N = Node(k, f, l, a, Height(t))
        BY <2>2, <2>3, <2>5, <2>6
      <3>2. QED
        BY <2>5, <2>7, <2>8, <3>1, Rebalances
    <2>10. Height(n) \in {Height(t), Height(t) + 1}
      BY <1>2, <2>2, <2>9 DEF Restored, Taller
    <2>11. QED
      BY <1>1, <2>4, <2>5, <2>7, <2>9, <2>10 DEF Inserted, Restored
  <1>6. CASE key = k
    <2>1. InsertStep(t, g, key, fd) = t
      BY <1>2, <1>6 DEF InsertStep
    <2>2. With(S, key, fd) = S
      <3>1. <<k, f>> \in S /\ <<k, f>>[1] = key
        BY <1>1, <1>6
      <3>2. QED
        BY <3>1 DEF With
    <2>3. Holds(t, S)
      BY <1>1, HoldsOver
    <2>4. QED
      BY <1>1, <2>1, <2>2, <2>3 DEF Inserted
  <1>7. QED
    BY <1>2, <1>3, <1>4, <1>5, <1>6

(* insert_node: an AVL tree becomes one, with the key added. *)
LEMMA InsertNodeHolds ==
  ASSUME NEW t, NEW S, Holds(t, S), NEW key \in Keys, NEW fd \in Fds
  PROVE  Inserted(InsertNode(t, key, fd), t, S, key, fd)
  <1> DEFINE H == Height(t)
  <1>1. H \in Nat /\ t \in Trees[H]
    BY HoldsHigh, HoldsTrees
  <1>2. PICK g : Steps(H, g, 1, key, fd) /\ InsertNode(t, key, fd) = g[t]
    BY <1>1, InsertNodeIs
  <1>3. \A n \in Trees[H] : g[n] = InsertStep(n, g, key, fd)
    BY <1>2 DEF Steps, TreeStep
  <1> HIDE DEF H
  <1> DEFINE Y == {x \in Space : x[1] \in Trees[H] => Inserted(g[x[1]], x[1], x[2], key, fd)}
  <1>4. <<Null, {}>> \in Y
    <2>1. g[Null] = CreateNode(key, fd)
      BY <1>1, <1>3, NullTree DEF InsertStep
    <2>2. Taller(Height(Null), Height(Null)) + 1 = 1
      BY NullTree DEF Taller
    <2>3. g[Null] = Over(Null, key, fd, Null)
      BY <2>1, <2>2 DEF CreateNode, Over, Node
    <2>4. Fits(Null, {}, key, fd, Null, {})
      BY NullTree DEF Fits
    <2>5. Holds(g[Null], {} \cup {<<key, fd>>} \cup {})
      BY <2>3, <2>4, HoldsNull, HoldsOver
    <2>6. With({}, key, fd) = {} \cup {<<key, fd>>} \cup {}
      BY DEF With
    <2>7. Height(g[Null]) = 1
      BY <2>2, <2>3, NodeFields DEF Over
    <2>8. Inserted(g[Null], Null, {}, key, fd)
      BY <2>5, <2>6, <2>7, NullTree DEF Inserted
    <2>9. QED
      BY <2>8, SpaceClosed DEF Closed
  <1>5. ASSUME NEW l, NEW L, NEW k, NEW f, NEW r, NEW R,
               Holds(l, L), Holds(r, R), Fits(l, L, k, f, r, R),
               <<l, L>> \in Y, <<r, R>> \in Y,
               <<Over(l, k, f, r), L \cup {<<k, f>>} \cup R>> \in Space
        PROVE  <<Over(l, k, f, r), L \cup {<<k, f>>} \cup R>> \in Y
    <2>1. PICK n, N : n = Over(l, k, f, r) /\ N = L \cup {<<k, f>>} \cup R
      OBVIOUS
    <2>2. ASSUME n \in Trees[H]
          PROVE  Inserted(g[n], n, N, key, fd)
      <3>1. n # Null /\ n.left = l /\ n.right = r
        BY <1>5, <2>1, OverFields
      <3>2. l \in Trees[H] /\ r \in Trees[H]
        BY <1>1, <2>2, <3>1, TreesBelow
      <3>3. Inserted(g[l], l, L, key, fd) /\ Inserted(g[r], r, R, key, fd)
        BY <1>5, <3>2
      <3>4. g[n] = InsertStep(n, g, key, fd)
        BY <1>3, <2>2
      <3>5. QED
        BY <1>5, <2>1, <3>3, <3>4, InsertsOver
    <2>3. QED
      BY <1>5, <2>1, <2>2
  <1>6. Inductive(Y)
    <2> HIDE DEF Y
    <2>1. QED
      BY <1>4, <1>5 DEF Inductive
  <1>7. <<t, S>> \in Y
    <2> HIDE DEF Y
    <2>1. QED
      BY <1>6, HoldsInduction
  <1>8. QED
    BY <1>1, <1>2, <1>7
-----------------------------------------------------------------------------
(* Search, and the least node of a tree *)

(* n is the node of the key, or Null if there is no such entry.            *)
FoundIn(n, S, key) ==
  /\ n = Null => \A e \in S : e[1] # key
  /\ n # Null => /\ n.key = key /\ <<key, n.fd>> \in S
                 /\ \A e \in S : e[1] = key => e = <<key, n.fd>>

(* has_key finds the entry of a key if there is one. *)
LEMMA FindsOver ==
  ASSUME NEW l, NEW L, NEW k, NEW f, NEW r, NEW R, Holds(l, L), Holds(r, R),
         Fits(l, L, k, f, r, R), NEW t, t = Over(l, k, f, r), NEW g, NEW key \in Keys,
         FoundIn(g[l], L, key), FoundIn(g[r], R, key)
  PROVE  FoundIn(FoundStep(t, g, key), L \cup {<<k, f>>} \cup R, key)
  <1>1. /\ t # Null /\ t.key = k /\ t.fd = f /\ t.left = l /\ t.right = r
        /\ Ordered(L, k, f, R) /\ k \in Int
    BY OverFields
  <1>2. key \in Int
    BY AvlAssumption DEF Keys
  <1>3. (\A e \in L : e[1] \in Int /\ e[1] < k) /\ (\A e \in R : e[1] \in Int /\ k < e[1])
    BY <1>1, HoldsKeys DEF Ordered
  <1>4. PICK S : S = L \cup {<<k, f>>} \cup R
    OBVIOUS
  <1>5. CASE key < k
    <2>1. FoundStep(t, g, key) = g[l]
      BY <1>1, <1>5 DEF FoundStep
    <2>2. \A e \in S : e[1] = key => e \in L
      BY <1>1, <1>2, <1>3, <1>4, <1>5
    <2>3. PICK n : n = g[l]
      OBVIOUS
    <2>4. FoundIn(n, S, key)
      BY <1>4, <2>2, <2>3 DEF FoundIn
    <2>5. QED
      BY <1>4, <2>1, <2>3, <2>4
  <1>6. CASE key > k
    <2>1. FoundStep(t, g, key) = g[r]
      BY <1>1, <1>2, <1>6 DEF FoundStep
    <2>2. \A e \in S : e[1] = key => e \in R
      BY <1>1, <1>2, <1>3, <1>4, <1>6
    <2>3. PICK n : n = g[r]
      OBVIOUS
    <2>4. FoundIn(n, S, key)
      BY <1>4, <2>2, <2>3 DEF FoundIn
    <2>5. QED
      BY <1>4, <2>1, <2>3, <2>4
  <1>7. CASE key = k
    <2>1. FoundStep(t, g, key) = t
      BY <1>1, <1>7 DEF FoundStep
    <2>2. \A e \in S : e[1] = key => e = <<k, f>>
      BY <1>1, <1>2, <1>3, <1>4, <1>7
    <2>3. FoundIn(t, S, key)
      BY <1>1, <1>4, <1>7, <2>2 DEF FoundIn
    <2>4. QED
      BY <1>4, <2>1, <2>3
  <1>8. QED
    BY <1>1, <1>2, <1>5, <1>6, <1>7

(* has_key on any AVL tree. *)
LEMMA FoundHolds ==
  ASSUME NEW t, NEW S, Holds(t, S), NEW key \in Keys
  PROVE  FoundIn(Found(t, key), S, key)
  <1> DEFINE H == Height(t)
  <1>1. H \in Nat /\ t \in Trees[H]
    BY HoldsHigh, HoldsTrees
  <1>2. PICK g : Steps(H, g, 4, key, 0) /\ Found(t, key) = g[t]
    BY <1>1, FoundIs
  <1>3. \A n \in Trees[H] : g[n] = FoundStep(n, g, key)
    BY <1>2 DEF Steps, TreeStep
  <1> HIDE DEF H
  <1> DEFINE Y == {x \in Space : x[1] \in Trees[H] => FoundIn(g[x[1]], x[2], key)}
  <1>4. <<Null, {}>> \in Y
    <2>1. g[Null] = Null
      BY <1>1, <1>3, NullTree DEF FoundStep
    <2>2. FoundIn(g[Null], {}, key)
      BY <2>1 DEF FoundIn
    <2>3. QED
      BY <2>2, SpaceClosed DEF Closed
  <1>5. ASSUME NEW l, NEW L, NEW k, NEW f, NEW r, NEW R,
               Holds(l, L), Holds(r, R), Fits(l, L, k, f, r, R),
               <<l, L>> \in Y, <<r, R>> \in Y,
               <<Over(l, k, f, r), L \cup {<<k, f>>} \cup R>> \in Space
        PROVE  <<Over(l, k, f, r), L \cup {<<k, f>>} \cup R>> \in Y
    <2>1. PICK n, N : n = Over(l, k, f, r) /\ N = L \cup {<<k, f>>} \cup R
      OBVIOUS
    <2>2. ASSUME n \in Trees[H]
          PROVE  FoundIn(g[n], N, key)
      <3>1. n # Null /\ n.left = l /\ n.right = r
        BY <1>5, <2>1, OverFields
      <3>2. l \in Trees[H] /\ r \in Trees[H]
        BY <1>1, <2>2, <3>1, TreesBelow
      <3>3. FoundIn(g[l], L, key) /\ FoundIn(g[r], R, key)
        BY <1>5, <3>2
      <3>4. g[n] = FoundStep(n, g, key)
        BY <1>3, <2>2
      <3>5. QED
        BY <1>5, <2>1, <3>3, <3>4, FindsOver
    <2>3. QED
      BY <1>5, <2>1, <2>2
  <1>6. Inductive(Y)
    <2> HIDE DEF Y
    <2>1. QED
      BY <1>4, <1>5 DEF Inductive
  <1>7. <<t, S>> \in Y
    <2> HIDE DEF Y
    <2>1. QED
      BY <1>6, HoldsInduction
  <1>8. QED
    BY <1>1, <1>2, <1>7

(* A tree that is Null has no entries. *)
LEMMA HoldsNothing ==
  ASSUME NEW S, Holds(Null, S)
  PROVE  S = {}
  <1>1. \A l, k, f, r : Over(l, k, f, r) # Null
    BY NodeFields DEF Over
  <1>2. QED
    BY <1>1, HoldsBuilt DEF Built

(* n is the node with the least key.                                       *)
LeastIn(n, S) ==
  /\ <<n.key, n.fd>> \in S
  /\ \A e \in S : n.key < e[1] \/ e = <<n.key, n.fd>>

(* min_value_node returns it. *)
LEMMA LeastOver ==
  ASSUME NEW l, NEW L, NEW k, NEW f, NEW r, NEW R, Holds(l, L), Holds(r, R),
         Fits(l, L, k, f, r, R), NEW t, t = Over(l, k, f, r), NEW g,
         l # Null => LeastIn(g[l], L)
  PROVE  LeastIn(MinStep(t, g), L \cup {<<k, f>>} \cup R)
  <1>1. /\ t # Null /\ t.key = k /\ t.fd = f /\ t.left = l
        /\ Ordered(L, k, f, R) /\ k \in Int
    BY OverFields
  <1>2. (\A e \in L : e[1] \in Int /\ e[1] < k) /\ (\A e \in R : e[1] \in Int /\ k < e[1])
    BY <1>1, HoldsKeys DEF Ordered
  <1>3. PICK S : S = L \cup {<<k, f>>} \cup R
    OBVIOUS
  <1>4. CASE l = Null
    <2>1. MinStep(t, g) = t
      BY <1>1, <1>4 DEF MinStep
    <2>2. L = {}
      BY <1>4, HoldsNothing
    <2>3. LeastIn(t, S)
      BY <1>1, <1>2, <1>3, <2>2 DEF LeastIn
    <2>4. QED
      BY <1>3, <2>1, <2>3
  <1>5. CASE l # Null
    <2>1. PICK n : n = g[l]
      OBVIOUS
    <2>2. MinStep(t, g) = n
      BY <1>1, <1>5, <2>1 DEF MinStep
    <2>3. <<n.key, n.fd>> \in L /\ \A e \in L : n.key < e[1] \/ e = <<n.key, n.fd>>
      BY <1>5, <2>1 DEF LeastIn
    <2>4. n.key \in Int /\ n.key < k
      BY <1>2, <2>3
    <2>5. \A e \in R : n.key < e[1]
      BY <1>1, <1>2, <2>4
    <2>6. LeastIn(n, S)
      BY <1>3, <2>3, <2>4, <2>5 DEF LeastIn
    <2>7. QED
      BY <1>3, <2>2, <2>6
  <1>6. QED
    BY <1>4, <1>5

(* min_value_node on any AVL tree but Null. *)
LEMMA LeastHolds ==
  ASSUME NEW t, NEW S, Holds(t, S), t # Null
  PROVE  LeastIn(MinValueNode(t), S)
  <1> DEFINE H == Height(t)
  <1>1. H \in Nat /\ t \in Trees[H]
    BY HoldsHigh, HoldsTrees
  <1>2. PICK g : Steps(H, g, 2, 0, 0) /\ MinValueNode(t) = g[t]
    BY <1>1, MinValueNodeIs
  <1>3. \A n \in Trees[H] : g[n] = MinStep(n, g)
    BY <1>2 DEF Steps, TreeStep
  <1> HIDE DEF H
  <1> DEFINE Y == {x \in Space : x[1] \in Trees[H] /\ x[1] # Null => LeastIn(g[x[1]], x[2])}
  <1>4. <<Null, {}>> \in Y
    BY SpaceClosed DEF Closed
  <1>5. ASSUME NEW l, NEW L, NEW k, NEW f, NEW r, NEW R,
               Holds(l, L), Holds(r, R), Fits(l, L, k, f, r, R),
               <<l, L>> \in Y, <<r, R>> \in Y,
               <<Over(l, k, f, r), L \cup {<<k, f>>} \cup R>> \in Space
        PROVE  <<Over(l, k, f, r), L \cup {<<k, f>>} \cup R>> \in Y
    <2>1. PICK n, N : n = Over(l, k, f, r) /\ N = L \cup {<<k, f>>} \cup R
      OBVIOUS
    <2>2. ASSUME n \in Trees[H]
          PROVE  LeastIn(g[n], N)
      <3>1. n # Null /\ n.left = l
        BY <1>5, <2>1, OverFields
      <3>2. l \in Trees[H]
        BY <1>1, <2>2, <3>1, TreesBelow
      <3>3. l # Null => LeastIn(g[l], L)
        BY <1>5, <3>2
      <3>4. g[n] = MinStep(n, g)
        BY <1>3, <2>2
      <3>5. QED
        BY <1>5, <2>1, <3>3, <3>4, LeastOver
    <2>3. QED
      BY <1>5, <2>1, <2>2
  <1>6. Inductive(Y)
    <2> HIDE DEF Y
    <2>1. QED
      BY <1>4, <1>5 DEF Inductive
  <1>7. <<t, S>> \in Y
    <2> HIDE DEF Y
    <2>1. QED
      BY <1>6, HoldsInduction
  <1>8. QED
    BY <1>1, <1>2, <1>7
-----------------------------------------------------------------------------
(* Removal *)

(* The entries without that of key.                                        *)
Without(S, key) == {e \in S : e[1] # key}

(* The tree n is t after a removal.                                        *)
Removed(n, t, S, key) ==
  /\ Holds(n, Without(S, key))
  /\ Height(n) \in {Height(t) - 1, Height(t)}

(* Whichever key g removes from t.                                         *)
RemovedAll(g, t, S) == \A key \in Keys : Removed(g[t][key], t, S, key)

(* Taking from the entries around a node's is taking from the side of the key. *)
LEMMA WithoutSides ==
  ASSUME NEW l, NEW L, NEW k, NEW f, NEW r, NEW R, Holds(l, L), Holds(r, R),
         Ordered(L, k, f, R), NEW key \in Keys, NEW S, S = L \cup {<<k, f>>} \cup R
  PROVE  /\ key < k => Without(S, key) = Without(L, key) \cup {<<k, f>>} \cup R
         /\ key > k => Without(S, key) = L \cup {<<k, f>>} \cup Without(R, key)
         /\ key = k => Without(S, key) = L \cup R
         /\ Ordered(Without(L, key), k, f, R)
         /\ Ordered(L, k, f, Without(R, key))
  <1>1. k \in Int /\ key \in Int
    BY AvlAssumption DEF Ordered, Keys
  <1>2. (\A e \in L : e[1] \in Int /\ e[1] < k) /\ (\A e \in R : e[1] \in Int /\ k < e[1])
    BY HoldsKeys DEF Ordered
  <1>3. key < k => Without(S, key) = Without(L, key) \cup {<<k, f>>} \cup R
    BY <1>1, <1>2 DEF Without
  <1>4. key > k => Without(S, key) = L \cup {<<k, f>>} \cup Without(R, key)
    BY <1>1, <1>2 DEF Without
  <1>5. key = k => Without(S, key) = L \cup R
    BY <1>1, <1>2 DEF Without
  <1>6. Ordered(Without(L, key), k, f, R) /\ Ordered(L, k, f, Without(R, key))
    BY DEF Ordered, Without
  <1>7. QED
    BY <1>3, <1>4, <1>5, <1>6

(* Rebalancing an AVL tree leaves its entries and its height. *)
LEMMA StaysBalanced ==
  ASSUME NEW t, NEW S, Holds(t, S), t # Null
  PROVE  Holds(Rebalanced(t), S) /\ Height(Rebalanced(t)) = Height(t)
  <1>1. PICK l, L, k, f, r, R :
           /\ Holds(l, L) /\ Holds(r, R) /\ Fits(l, L, k, f, r, R)
           /\ t = Over(l, k, f, r) /\ S = L \cup {<<k, f>>} \cup R
    BY HoldsNode
  <1>2. /\ t = Node(k, f, l, r, Height(t))
        /\ Height(l) \in Nat /\ Height(r) \in Nat
        /\ Height(t) = Taller(Height(l), Height(r)) + 1
        /\ Height(l) - Height(r) \in -1..1
        /\ Ordered(L, k, f, R)
    BY <1>1, OverFields
  <1>3. Height(l) - Height(r) \in -2..2
    BY <1>2
  <1>4. Restored(Rebalanced(t), S, Height(l), Height(r))
    BY <1>1, <1>2, <1>3, Rebalances
  <1>5. QED
    BY <1>2, <1>4 DEF Restored

(* A node whose left, or right, subtree has become a tree of the same      *)
(* height or one level less.                                               *)
LEMMA ShrinksLeft ==
  ASSUME NEW l, NEW L, NEW k, NEW f, NEW r, NEW R, Holds(l, L), Holds(r, R),
         Ordered(L, k, f, R), NEW i \in Nat, Height(l) \in {i - 1, i}, i - Height(r) \in -1..1,
         NEW h, NEW n, n = Node(k, f, l, r, h)
  PROVE  /\ Holds(Rebalanced(n), L \cup {<<k, f>>} \cup R)
         /\ Height(Rebalanced(n)) \in {Taller(i, Height(r)), Taller(i, Height(r)) + 1}
  <1>1. Height(l) \in Nat /\ Height(r) \in Nat
    BY HoldsHigh
  <1>2. Height(l) - Height(r) \in -2..2
    BY <1>1
  <1>3. Restored(Rebalanced(n), L \cup {<<k, f>>} \cup R, Height(l), Height(r))
    BY <1>2, Rebalances
  <1>4. QED
    BY <1>1, <1>3 DEF Restored, Taller

(* The mirror image. *)
LEMMA ShrinksRight ==
  ASSUME NEW l, NEW L, NEW k, NEW f, NEW r, NEW R, Holds(l, L), Holds(r, R),
         Ordered(L, k, f, R), NEW i \in Nat, Height(r) \in {i - 1, i}, Height(l) - i \in -1..1,
         NEW h, NEW n, n = Node(k, f, l, r, h)
  PROVE  /\ Holds(Rebalanced(n), L \cup {<<k, f>>} \cup R)
         /\ Height(Rebalanced(n)) \in {Taller(Height(l), i), Taller(Height(l), i) + 1}
  <1>1. Height(l) \in Nat /\ Height(r) \in Nat
    BY HoldsHigh
  <1>2. Height(l) - Height(r) \in -2..2
    BY <1>1
  <1>3. Restored(Rebalanced(n), L \cup {<<k, f>>} \cup R, Height(l), Height(r))
    BY <1>2, Rebalances
  <1>4. QED
    BY <1>1, <1>3 DEF Restored, Taller

(* The node t over two trees.                                              *)
NodeOver(t, l, L, k, f, r, R) ==
  Holds(l, L) /\ Holds(r, R) /\ Fits(l, L, k, f, r, R) /\ t = Over(l, k, f, r)

(* Removal of the key of the node itself: a node with two subtrees takes   *)
(* the entry of its successor, which leaves the right one.                 *)
LEMMA RemovesHere ==
  ASSUME NEW l, NEW L, NEW k, NEW f, NEW r, NEW R, NEW t, NodeOver(t, l, L, k, f, r, R),
         NEW g, RemovedAll(g, r, R), NEW n, n = RemoveStep(t, g)[k]
  PROVE  Holds(n, L \cup R) /\ Height(n) \in {Height(t) - 1, Height(t)}
  <1>0. /\ Holds(l, L) /\ Holds(r, R) /\ Fits(l, L, k, f, r, R)
        /\ t = Over(l, k, f, r)
    BY DEF NodeOver
  <1>1. /\ t # Null /\ t.key = k /\ t.left = l /\ t.right = r
        /\ t = Node(k, f, l, r, Height(t))
        /\ Height(l) \in Nat /\ Height(r) \in Nat /\ Height(t) \in Nat
        /\ Height(t) = Taller(Height(l), Height(r)) + 1
        /\ Height(l) - Height(r) \in -1..1
        /\ Ordered(L, k, f, R) /\ k \in Int /\ k \in Keys
    BY <1>0, OverFields
  <1>2. ~(k < k) /\ ~(k > k)
    BY <1>1
  <1>3. n = IF l = Null /\ r = Null THEN Null
            ELSE IF l = Null THEN Rebalanced(r)
            ELSE IF r = Null THEN Rebalanced(l)
            ELSE LET temp == MinValueNode(r)
                 IN  Rebalanced([Replaced(t, temp) EXCEPT !.right = g[r][temp.key]])
    BY <1>1, <1>2, Zenon DEF RemoveStep
  <1>4. CASE l = Null /\ r = Null
    <2>1. L = {} /\ R = {} /\ n = Null
      BY <1>3, <1>4, <1>0, HoldsNothing
    <2>2. Height(l) = 0 /\ Height(r) = 0 /\ Height(n) = 0
      BY <1>4, <2>1, NullTree
    <2>3. Height(t) = 1
      BY <1>1, <2>2 DEF Taller
    <2>4. QED
      BY <2>1, <2>2, <2>3, HoldsNull
  <1>5. CASE l = Null /\ r # Null
    <2>1. L = {} /\ n = Rebalanced(r) /\ Height(l) = 0
      BY <1>3, <1>5, <1>0, HoldsNothing, NullTree
    <2>2. Holds(n, R) /\ Height(n) = Height(r)
      BY <1>5, <2>1, <1>0, StaysBalanced
    <2>3. L \cup R = R
      BY <2>1
    <2>4. Height(t) = Height(r) + 1
      BY <1>1, <2>1 DEF Taller
    <2>5. Height(n) \in {Height(t) - 1, Height(t)}
      BY <1>1, <2>2, <2>4
    <2>6. QED
      BY <2>2, <2>3, <2>5
  <1>6. CASE l # Null /\ r = Null
    <2>1. R = {} /\ n = Rebalanced(l) /\ Height(r) = 0
      BY <1>3, <1>6, <1>0, HoldsNothing, NullTree
    <2>2. Holds(n, L) /\ Height(n) = Height(l)
      BY <1>6, <2>1, <1>0, StaysBalanced
    <2>3. L \cup R = L
      BY <2>1
    <2>4. Height(t) = Height(l) + 1
      BY <1>1, <2>1 DEF Taller
    <2>5. Height(n) \in {Height(t) - 1, Height(t)}
      BY <1>1, <2>2, <2>4
    <2>6. QED
      BY <2>2, <2>3, <2>5
  <1>7. CASE l # Null /\ r # Null
    <2>1. PICK m : m = MinValueNode(r)
      OBVIOUS
    <2>2. PICK q, d : q = m.key /\ d = m.fd
      OBVIOUS
    <2>3. <<q, d>> \in R /\ \A e \in R : q < e[1] \/ e = <<q, d>>
      BY <1>7, <2>1, <2>2, <1>0, LeastHolds DEF LeastIn
    <2>4. q \in Keys /\ d \in Fds /\ q \in Int /\ k < q
      BY <1>1, <2>3, <1>0, HoldsKeys DEF Ordered
    <2>5. PICK a, W : a = g[r][q] /\ W = Without(R, q)
      OBVIOUS
    <2>6. Holds(a, W) /\ Height(a) \in {Height(r) - 1, Height(r)}
      BY <2>4, <2>5 DEF Removed, RemovedAll
    <2>7. PICK N : N = [Replaced(t, m) EXCEPT !.right = a]
      OBVIOUS
    <2>8. N = Node(q, d, l, a, Height(t))
      <3>1. Replaced(t, m) = Node(q, d, l, r, Height(t))
        BY <1>1, <2>2, NodeReplaced
      <3>2. QED
        BY <2>7, <3>1 DEF Node
    <2>9. n = Rebalanced(N)
      BY <1>3, <1>7, <2>1, <2>2, <2>5, <2>7, Zenon
    <2>10. Ordered(L, q, d, W)
      <3>1. \A e \in L : e[1] \in Int /\ e[1] < k
        BY <1>1, <1>0, HoldsKeys DEF Ordered
      <3>2. \A e \in L : e[1] < q
        BY <1>1, <2>4, <3>1
      <3>3. \A e \in W : q < e[1]
        BY <2>3, <2>5 DEF Without
      <3>4. QED
        BY <2>4, <3>2, <3>3 DEF Ordered
    <2>11. /\ Holds(n, L \cup {<<q, d>>} \cup W)
           /\ Height(n) \in {Taller(Height(l), Height(r)), Taller(Height(l), Height(r)) + 1}
      BY <1>1, <2>6, <2>8, <2>9, <2>10, <1>0, ShrinksRight
    <2>12. L \cup {<<q, d>>} \cup W = L \cup R
      <3>1. \A e \in R : e = <<q, d>> \/ e \in W
        BY <2>3, <2>4, <2>5 DEF Without
      <3>2. W \subseteq R
        BY <2>5 DEF Without
      <3>3. QED
        BY <2>3, <3>1, <3>2
    <2>13. Taller(Height(l), Height(r)) = Height(t) - 1
      BY <1>1 DEF Taller
    <2>14. QED
      BY <1>1, <2>11, <2>12, <2>13
  <1>8. QED
    BY <1>4, <1>5, <1>6, <1>7

(* Removal in one subtree, or at the node, and the rebalancing above it. *)
LEMMA RemovesOver ==
  ASSUME NEW l, NEW L, NEW k, NEW f, NEW r, NEW R, Holds(l, L), Holds(r, R),
         Fits(l, L, k, f, r, R), NEW t, t = Over(l, k, f, r), NEW g,
         RemovedAll(g, l, L), RemovedAll(g, r, R), NEW key \in Keys
  PROVE  Removed(RemoveStep(t, g)[key], t, L \cup {<<k, f>>} \cup R, key)
  <1>1. /\ t # Null /\ t.key = k /\ t.left = l /\ t.right = r
        /\ t = Node(k, f, l, r, Height(t))
        /\ Height(l) \in Nat /\ Height(r) \in Nat /\ Height(t) \in Nat
        /\ Height(t) = Taller(Height(l), Height(r)) + 1
        /\ Height(l) - Height(r) \in -1..1
        /\ Ordered(L, k, f, R) /\ k \in Int
    BY OverFields
  <1>2. key \in Int /\ Taller(Height(l), Height(r)) = Height(t) - 1
        /\ Taller(Height(l), Height(r)) + 1 = Height(t)
    <2>1. key \in Int
      BY AvlAssumption DEF Keys
    <2>2. QED
      BY <1>1, <2>1 DEF Taller
  <1>3. PICK S, n : S = L \cup {<<k, f>>} \cup R /\ n = RemoveStep(t, g)[key]
    OBVIOUS
  <1>4. /\ key < k => Without(S, key) = Without(L, key) \cup {<<k, f>>} \cup R
        /\ key > k => Without(S, key) = L \cup {<<k, f>>} \cup Without(R, key)
        /\ key = k => Without(S, key) = L \cup R
        /\ Ordered(Without(L, key), k, f, R)
        /\ Ordered(L, k, f, Without(R, key))
    BY <1>1, <1>3, WithoutSides
  <1>5. CASE key < k
    <2>1. PICK a, W : a = g[l][key] /\ W = Without(L, key)
      OBVIOUS
    <2>2. Holds(a, W) /\ Height(a) \in {Height(l) - 1, Height(l)}
      BY <2>1 DEF Removed, RemovedAll
    <2>3. PICK N : N = [t EXCEPT !.left = a]
      OBVIOUS
    <2>4. N = Node(k, f, a, r, Height(t))
      BY <1>1, <2>3 DEF Node
    <2>5. n = Rebalanced(N)
      BY <1>1, <1>3, <1>5, <2>1, <2>3, Zenon DEF RemoveStep
    <2>6. /\ Holds(n, W \cup {<<k, f>>} \cup R)
          /\ Height(n) \in {Taller(Height(l), Height(r)), Taller(Height(l), Height(r)) + 1}
      BY <1>1, <1>4, <2>1, <2>2, <2>4, <2>5, ShrinksLeft
    <2>7. QED
      BY <1>2, <1>3, <1>4, <1>5, <2>1, <2>6 DEF Removed
  <1>6. CASE key > k
    <2>1. PICK a, W : a = g[r][key] /\ W = Without(R, key)
      OBVIOUS
    <2>2. Holds(a, W) /\ Height(a) \in {Height(r) - 1, Height(r)}
      BY <2>1 DEF Removed, RemovedAll
    <2>3. PICK N : N = [t EXCEPT !.right = a]
      OBVIOUS
    <2>4. N = Node(k, f, l, a, Height(t))
      BY <1>1, <2>3 DEF Node
    <2>5. n = Rebalanced(N)
      <3>1. ~(key < k)
        BY <1>1, <1>2, <1>6
      <3>2. QED
        BY <1>1, <1>3, <1>6, <2>1, <2>3, <3>1, Zenon DEF RemoveStep
    <2>6. /\ Holds(n, L \cup {<<k, f>>} \cup W)
          /\ Height(n) \in {Taller(Height(l), Height(r)), Taller(Height(l), Height(r)) + 1}
      BY <1>1, <1>4, <2>1, <2>2, <2>4, <2>5, ShrinksRight
    <2>7. QED
      BY <1>2, <1>3, <1>4, <1>6, <2>1, <2>6 DEF Removed
  <1>7. CASE key = k
    <2>1. Holds(n, L \cup R) /\ Height(n) \in {Height(t) - 1, Height(t)}
      <3>1. n = RemoveStep(t, g)[k]
        BY <1>3, <1>7
      <3>2. NodeOver(t, l, L, k, f, r, R)
        BY DEF NodeOver
      <3>3. QED
        BY <3>1, <3>2, RemovesHere
    <2>2. QED
      BY <1>3, <1>4, <1>7, <2>1 DEF Removed
  <1>8. QED
    BY <1>1, <1>2, <1>5, <1>6, <1>7

(* remove_node: an AVL tree becomes one, without the key. *)
LEMMA RemoveNodeHolds ==
  ASSUME NEW t, NEW S, Holds(t, S), NEW key \in Keys
  PROVE  Removed(RemoveNode(t, key), t, S, key)
  <1> DEFINE H == Height(t)
  <1>1. H \in Nat /\ t \in Trees[H]
    BY HoldsHigh, HoldsTrees
  <1>2. PICK g : Steps(H, g, 3, 0, 0) /\ RemoveNode(t, key) = g[t][key]
    BY <1>1, RemoveNodeIs
  <1>3. \A n \in Trees[H] : g[n] = RemoveStep(n, g)
    BY <1>2 DEF Steps, TreeStep
  <1> HIDE DEF H
  <1> DEFINE Y == {x \in Space : x[1] \in Trees[H] => RemovedAll(g, x[1], x[2])}
  <1>4. <<Null, {}>> \in Y
    <2>1. ASSUME NEW q \in Keys PROVE Removed(g[Null][q], Null, {}, q)
      <3>0. g[Null] = RemoveStep(Null, g)
        BY <1>1, <1>3, NullTree
      <3>1. g[Null][q] = Null
        BY <3>0 DEF RemoveStep
      <3>2. Without({}, q) = {}
        BY DEF Without
      <3>3. QED
        BY <3>1, <3>2, HoldsNull DEF Removed
    <2>2. RemovedAll(g, Null, {})
      BY <2>1 DEF RemovedAll
    <2>3. QED
      BY <2>2, SpaceClosed DEF Closed
  <1>5. ASSUME NEW l, NEW L, NEW k, NEW f, NEW r, NEW R,
               Holds(l, L), Holds(r, R), Fits(l, L, k, f, r, R),
               <<l, L>> \in Y, <<r, R>> \in Y,
               <<Over(l, k, f, r), L \cup {<<k, f>>} \cup R>> \in Space
        PROVE  <<Over(l, k, f, r), L \cup {<<k, f>>} \cup R>> \in Y
    <2>1. PICK n, N : n = Over(l, k, f, r) /\ N = L \cup {<<k, f>>} \cup R
      OBVIOUS
    <2>2. ASSUME n \in Trees[H]
          PROVE  RemovedAll(g, n, N)
      <3>1. n # Null /\ n.left = l /\ n.right = r
        BY <1>5, <2>1, OverFields
      <3>2. l \in Trees[H] /\ r \in Trees[H]
        BY <1>1, <2>2, <3>1, TreesBelow
      <3>3. RemovedAll(g, l, L) /\ RemovedAll(g, r, R)
        BY <1>5, <3>2
      <3>4. g[n] = RemoveStep(n, g)
        BY <1>3, <2>2
      <3>5. ASSUME NEW q \in Keys PROVE Removed(RemoveStep(n, g)[q], n, N, q)
        BY <1>5, <2>1, <3>3, RemovesOver
      <3>6. QED
        BY <3>4, <3>5 DEF RemovedAll
    <2>3. QED
      BY <1>5, <2>1, <2>2
  <1>6. Inductive(Y)
    <2> HIDE DEF Y
    <2>1. QED
      BY <1>4, <1>5 DEF Inductive
  <1>7. <<t, S>> \in Y
    <2> HIDE DEF Y
    <2>1. QED
      BY <1>6, HoldsInduction
  <1>8. RemovedAll(g, t, S)
    BY <1>1, <1>7
  <1>9. QED
    BY <1>2, <1>8 DEF RemovedAll
-----------------------------------------------------------------------------
(* The walk *)

(* A node with the height and the balance BalancedEverywhere asks for.     *)
Sound(n) ==
  /\ n.height = Taller(Height(n.left), Height(n.right)) + 1
  /\ GetBalance(n) \in {-1, 0, 1}

(* The nodes of the sequence s have the keys of the entries, each once and *)
(* in their order.                                                         *)
WalkOf(s, S) ==
  /\ s \in Seq(TreeSet)
  /\ \A i \in 1..Len(s) : Sound(s[i]) /\ \E e \in S : e[1] = s[i].key
  /\ \A e \in S : \E i \in 1..Len(s) : s[i].key = e[1]
  /\ \A i, j \in 1..Len(s) : i < j => s[i].key < s[j].key

(* An element between two sequences. *)
LEMMA ConcatThree ==
  ASSUME NEW T, NEW a \in Seq(T), NEW b \in Seq(T), NEW x \in T,
         NEW s, s = a \o <<x>> \o b
  PROVE  /\ s \in Seq(T)
         /\ Len(a) \in Nat /\ Len(b) \in Nat /\ Len(s) = Len(a) + 1 + Len(b)
         /\ \A i \in 1..Len(a) : s[i] = a[i]
         /\ s[Len(a) + 1] = x
         /\ \A i \in 1..Len(b) : s[Len(a) + 1 + i] = b[i]
  <1>1. PICK o : o = <<x>>
    OBVIOUS
  <1>2. o \in Seq(T) /\ Len(o) = 1 /\ o[1] = x
    BY <1>1
  <1>3. Len(a) \in Nat /\ Len(b) \in Nat
    BY LenProperties
  <1>4. PICK c : c = a \o o
    OBVIOUS
  <1>5. /\ c \in Seq(T) /\ Len(c) = Len(a) + 1
        /\ \A i \in 1..Len(a) + 1 : c[i] = IF i <= Len(a) THEN a[i] ELSE o[i - Len(a)]
    <2>1. /\ a \o o \in Seq(T) /\ Len(a \o o) = Len(a) + Len(o)
          /\ \A i \in 1..Len(a) + Len(o) : (a \o o)[i] = IF i <= Len(a) THEN a[i] ELSE o[i - Len(a)]
      BY <1>2, ConcatProperties
    <2>2. QED
      BY <1>2, <1>4, <2>1
  <1>6. s = c \o b
    BY <1>1, <1>4
  <1>7. /\ s \in Seq(T) /\ Len(s) = Len(c) + Len(b)
        /\ \A i \in 1..Len(c) + Len(b) : s[i] = IF i <= Len(c) THEN c[i] ELSE b[i - Len(c)]
    <2>1. /\ c \o b \in Seq(T) /\ Len(c \o b) = Len(c) + Len(b)
          /\ \A i \in 1..Len(c) + Len(b) : (c \o b)[i] = IF i <= Len(c) THEN c[i] ELSE b[i - Len(c)]
      BY <1>5, ConcatProperties
    <2>2. QED
      BY <1>6, <2>1
  <1>8. \A i \in 1..Len(a) : s[i] = a[i]
    BY <1>3, <1>5, <1>7
  <1>9. s[Len(a) + 1] = x
    <2>1. Len(a) + 1 - Len(a) = 1 /\ ~(Len(a) + 1 <= Len(a)) /\ Len(a) + 1 \in 1..Len(a) + 1
          /\ Len(a) + 1 \in 1..Len(c) + Len(b) /\ Len(a) + 1 <= Len(c)
      BY <1>3, <1>5
    <2>2. QED
      BY <1>2, <1>5, <1>7, <2>1
  <1>10. ASSUME NEW i \in 1..Len(b) PROVE s[Len(a) + 1 + i] = b[i]
    <2>1. PICK j : j = Len(a) + 1 + i
      OBVIOUS
    <2>2. j \in 1..Len(c) + Len(b) /\ ~(j <= Len(c)) /\ j - Len(c) = i
      BY <1>3, <1>5, <2>1
    <2>3. QED
      BY <1>7, <2>1, <2>2
  <1>11. QED
    BY <1>3, <1>5, <1>7, <1>8, <1>9, <1>10

(* A node between the walks of its subtrees. *)
LEMMA WalksOver ==
  ASSUME NEW l, NEW L, NEW k, NEW f, NEW r, NEW R, Holds(l, L), Holds(r, R),
         Fits(l, L, k, f, r, R), NEW t, t = Over(l, k, f, r), NEW g,
         WalkOf(g[l], L), WalkOf(g[r], R)
  PROVE  WalkOf(WalkStep(t, g), L \cup {<<k, f>>} \cup R)
  <1>1. /\ t # Null /\ t.key = k /\ t.left = l /\ t.right = r /\ t.height = Height(t)
        /\ Height(l) \in Nat /\ Height(r) \in Nat
        /\ Height(t) = Taller(Height(l), Height(r)) + 1
        /\ Height(l) - Height(r) \in -1..1
        /\ Ordered(L, k, f, R) /\ k \in Int
        /\ t = Node(k, f, l, r, Height(t))
    BY OverFields
  <1>2. Sound(t)
    <2>1. GetBalance(t) = Height(l) - Height(r)
      BY <1>1, NodeUpdates
    <2>2. QED
      BY <1>1, <2>1 DEF Sound
  <1>3. (\A e \in L : e[1] \in Int /\ e[1] < k) /\ (\A e \in R : e[1] \in Int /\ k < e[1])
    BY <1>1, HoldsKeys DEF Ordered
  <1>4. PICK S : S = L \cup {<<k, f>>} \cup R
    OBVIOUS
  <1>5. PICK a, b, s : a = g[l] /\ b = g[r] /\ s = a \o <<t>> \o b
    OBVIOUS
  <1>6. WalkStep(t, g) = s
    BY <1>1, <1>5 DEF WalkStep
  <1>7. WalkOf(a, L) /\ WalkOf(b, R)
    BY <1>5
  <1>8. t \in TreeSet
    <2>1. Holds(t, S)
      BY <1>4, HoldsOver
    <2>2. QED
      BY <2>1, HoldsBuilt
  <1>9. PICK A, B : A = Len(a) /\ B = Len(b)
    OBVIOUS
  <1>10. /\ s \in Seq(TreeSet)
         /\ A \in Nat /\ B \in Nat /\ Len(s) = A + 1 + B
         /\ \A i \in 1..A : s[i] = a[i]
         /\ s[A + 1] = t
         /\ \A i \in 1..B : s[A + 1 + i] = b[i]
    <2>1. a \in Seq(TreeSet) /\ b \in Seq(TreeSet)
      BY <1>7 DEF WalkOf
    <2>2. /\ s \in Seq(TreeSet)
          /\ Len(a) \in Nat /\ Len(b) \in Nat /\ Len(s) = Len(a) + 1 + Len(b)
          /\ \A i \in 1..Len(a) : s[i] = a[i]
          /\ s[Len(a) + 1] = t
          /\ \A i \in 1..Len(b) : s[Len(a) + 1 + i] = b[i]
      <3>1. s = a \o <<t>> \o b
        BY <1>5
      <3>2. QED
        BY <1>8, <2>1, <3>1, ConcatThree
    <2>3. QED
      BY <1>9, <2>2
  (* an index is that of a node to the left, of t, or of a node to the right *)
  <1>11. /\ \A i \in 1..A : /\ Sound(s[i]) /\ s[i].key < k /\ s[i].key \in Int
                            /\ \E e \in S : e[1] = s[i].key
         /\ \A e \in L : \E i \in 1..A : s[i].key = e[1]
         /\ \A i, j \in 1..A : i < j => s[i].key < s[j].key
    <2>1. /\ \A i \in 1..A : Sound(a[i]) /\ \E e \in L : e[1] = a[i].key
          /\ \A e \in L : \E i \in 1..A : a[i].key = e[1]
          /\ \A i, j \in 1..A : i < j => a[i].key < a[j].key
      BY <1>7, <1>9 DEF WalkOf
    <2>2. ASSUME NEW i \in 1..A
          PROVE  /\ Sound(s[i]) /\ s[i].key < k /\ s[i].key \in Int
                 /\ \E e \in S : e[1] = s[i].key
      <3>1. s[i] = a[i]
        BY <1>10
      <3>2. PICK e \in L : e[1] = s[i].key
        BY <2>1, <3>1
      <3>3. Sound(s[i])
        BY <2>1, <3>1
      <3>4. QED
        BY <1>3, <1>4, <3>2, <3>3
    <2>3. \A i \in 1..A : s[i] = a[i]
      BY <1>10
    <2>4. \A e \in L : \E i \in 1..A : s[i].key = e[1]
      BY <2>1, <2>3
    <2>5. \A i, j \in 1..A : i < j => s[i].key < s[j].key
      BY <2>1, <2>3
    <2>6. QED
      BY <2>2, <2>4, <2>5
  <1>12. /\ \A i \in 1..B : /\ Sound(s[A + 1 + i]) /\ k < s[A + 1 + i].key /\ s[A + 1 + i].key \in Int
                            /\ \E e \in S : e[1] = s[A + 1 + i].key
         /\ \A e \in R : \E i \in 1..B : s[A + 1 + i].key = e[1]
         /\ \A i, j \in 1..B : i < j => s[A + 1 + i].key < s[A + 1 + j].key
    <2>1. /\ \A i \in 1..B : Sound(b[i]) /\ \E e \in R : e[1] = b[i].key
          /\ \A e \in R : \E i \in 1..B : b[i].key = e[1]
          /\ \A i, j \in 1..B : i < j => b[i].key < b[j].key
      BY <1>7, <1>9 DEF WalkOf
    <2>2. ASSUME NEW i \in 1..B
          PROVE  /\ Sound(s[A + 1 + i]) /\ k < s[A + 1 + i].key /\ s[A + 1 + i].key \in Int
                 /\ \E e \in S : e[1] = s[A + 1 + i].key
      <3>1. s[A + 1 + i] = b[i]
        BY <1>10
      <3>2. PICK e \in R : e[1] = s[A + 1 + i].key
        BY <2>1, <3>1
      <3>3. Sound(s[A + 1 + i])
        BY <2>1, <3>1
      <3>4. QED
        BY <1>3, <1>4, <3>2, <3>3
    <2>3. \A i \in 1..B : s[A + 1 + i] = b[i]
      BY <1>10
    <2>4. \A e \in R : \E i \in 1..B : s[A + 1 + i].key = e[1]
      BY <2>1, <2>3
    <2>5. \A i, j \in 1..B : i < j => s[A + 1 + i].key < s[A + 1 + j].key
      <3>1. ASSUME NEW i \in 1..B, NEW j \in 1..B, i < j
            PROVE  s[A + 1 + i].key < s[A + 1 + j].key
        <4>1. s[A + 1 + i] = b[i] /\ s[A + 1 + j] = b[j] /\ b[i].key < b[j].key
          BY <2>1, <2>3, <3>1
        <4>2. QED
          BY <4>1
      <3>2. QED
        BY <3>1
    <2>6. QED
      BY <2>2, <2>4, <2>5
  <1>13. \A i \in 1..Len(s) : i \in 1..A \/ i = A + 1 \/ \E m \in 1..B : i = A + 1 + m
    <2>1. ASSUME NEW i \in 1..Len(s), i \notin 1..A, i # A + 1
          PROVE  \E m \in 1..B : i = A + 1 + m
      <3>1. i - (A + 1) \in 1..B /\ i = A + 1 + (i - (A + 1))
        BY <1>10, <2>1
      <3>2. QED
        BY <3>1
    <2>2. QED
      BY <2>1
  <1>14. <<k, f>> \in S /\ <<k, f>>[1] = s[A + 1].key
    BY <1>1, <1>4, <1>10
  <1>15. ASSUME NEW i \in 1..Len(s)
         PROVE  Sound(s[i]) /\ \E e \in S : e[1] = s[i].key
    <2>1. CASE i \in 1..A
      BY <1>11, <2>1
    <2>2. CASE i = A + 1
      BY <1>2, <1>10, <1>14, <2>2
    <2>3. CASE \E m \in 1..B : i = A + 1 + m
      BY <1>12, <2>3
    <2>4. QED
      BY <1>13, <2>1, <2>2, <2>3
  <1>16. ASSUME NEW e \in S
         PROVE  \E i \in 1..Len(s) : s[i].key = e[1]
    <2>1. CASE e \in L
      <3>1. PICK i \in 1..A : s[i].key = e[1]
        BY <1>11, <2>1
      <3>2. i \in 1..Len(s)
        BY <1>10, <3>1
      <3>3. QED
        BY <3>1, <3>2
    <2>2. CASE e = <<k, f>>
      <3>1. A + 1 \in 1..Len(s)
        BY <1>10
      <3>2. QED
        BY <1>14, <2>2, <3>1
    <2>3. CASE e \in R
      <3>1. PICK i \in 1..B : s[A + 1 + i].key = e[1]
        BY <1>12, <2>3
      <3>2. A + 1 + i \in 1..Len(s)
        BY <1>10, <3>1
      <3>3. QED
        BY <3>1, <3>2
    <2>4. QED
      BY <1>4, <2>1, <2>2, <2>3
  <1>17. ASSUME NEW i \in 1..Len(s), NEW j \in 1..Len(s), i < j
         PROVE  s[i].key < s[j].key
    <2>1. CASE i \in 1..A /\ j \in 1..A
      BY <1>11, <1>17, <2>1
    <2>2. CASE i \in 1..A /\ j = A + 1
      BY <1>1, <1>10, <1>11, <2>2
    <2>3. CASE i \in 1..A /\ \E m \in 1..B : j = A + 1 + m
      <3>1. PICK m \in 1..B : j = A + 1 + m
        BY <2>3
      <3>2. s[i].key \in Int /\ s[i].key < k /\ k < s[j].key /\ s[j].key \in Int
        BY <1>11, <1>12, <2>3, <3>1
      <3>3. QED
        BY <1>1, <3>2
    <2>4. CASE i = A + 1 /\ \E m \in 1..B : j = A + 1 + m
      <3>1. s[i].key = k /\ k < s[j].key
        BY <1>1, <1>10, <1>12, <2>4
      <3>2. QED
        BY <3>1
    <2>5. CASE (\E m \in 1..B : i = A + 1 + m) /\ \E m \in 1..B : j = A + 1 + m
      <3>1. PICK m \in 1..B, o \in 1..B : i = A + 1 + m /\ j = A + 1 + o
        BY <2>5
      <3>2. m < o
        BY <1>10, <1>17, <3>1
      <3>3. QED
        BY <1>12, <3>1, <3>2
    <2>6. ~(i = A + 1 /\ j \in 1..A) /\ ~(i = A + 1 /\ j = A + 1)
          /\ ~((\E m \in 1..B : i = A + 1 + m) /\ j \in 1..A)
          /\ ~((\E m \in 1..B : i = A + 1 + m) /\ j = A + 1)
      BY <1>10, <1>17
    <2>7. QED
      BY <1>13, <2>1, <2>2, <2>3, <2>4, <2>5, <2>6
  <1>18. WalkOf(s, S)
    BY <1>10, <1>15, <1>16, <1>17 DEF WalkOf
  <1>19. QED
    BY <1>4, <1>6, <1>18

(* The walk of any AVL tree. *)
LEMMA WalkHolds ==
  ASSUME NEW t, NEW S, Holds(t, S)
  PROVE  WalkOf(Walk(t), S)
  <1> DEFINE H == Height(t)
  <1>1. H \in Nat /\ t \in Trees[H]
    BY HoldsHigh, HoldsTrees
  <1>2. PICK g : Steps(H, g, 5, 0, 0) /\ Walk(t) = g[t]
    BY <1>1, WalkIs
  <1>3. \A n \in Trees[H] : g[n] = WalkStep(n, g)
    BY <1>2 DEF Steps, TreeStep
  <1> HIDE DEF H
  <1> DEFINE Y == {x \in Space : x[1] \in Trees[H] => WalkOf(g[x[1]], x[2])}
  <1>4. <<Null, {}>> \in Y
    <2>0. g[Null] = WalkStep(Null, g)
      BY <1>1, <1>3, NullTree
    <2>1. g[Null] = <<>>
      BY <2>0 DEF WalkStep
    <2>2. WalkOf(<<>>, {})
      BY EmptySeq DEF WalkOf
    <2>3. QED
      BY <2>1, <2>2, SpaceClosed DEF Closed
  <1>5. ASSUME NEW l, NEW L, NEW k, NEW f, NEW r, NEW R,
               Holds(l, L), Holds(r, R), Fits(l, L, k, f, r, R),
               <<l, L>> \in Y, <<r, R>> \in Y,
               <<Over(l, k, f, r), L \cup {<<k, f>>} \cup R>> \in Space
        PROVE  <<Over(l, k, f, r), L \cup {<<k, f>>} \cup R>> \in Y
    <2>1. PICK n, N : n = Over(l, k, f, r) /\ N = L \cup {<<k, f>>} \cup R
      OBVIOUS
    <2>2. ASSUME n \in Trees[H]
          PROVE  WalkOf(g[n], N)
      <3>1. n # Null /\ n.left = l /\ n.right = r
        BY <1>5, <2>1, OverFields
      <3>2. l \in Trees[H] /\ r \in Trees[H]
        BY <1>1, <2>2, <3>1, TreesBelow
      <3>3. WalkOf(g[l], L) /\ WalkOf(g[r], R)
        BY <1>5, <3>2
      <3>4. g[n] = WalkStep(n, g)
        BY <1>3, <2>2
      <3>5. QED
        BY <1>5, <2>1, <3>3, <3>4, WalksOver
    <2>3. QED
      BY <1>5, <2>1, <2>2
  <1>6. Inductive(Y)
    <2> HIDE DEF Y
    <2>1. QED
      BY <1>4, <1>5 DEF Inductive
  <1>7. <<t, S>> \in Y
    <2> HIDE DEF Y
    <2>1. QED
      BY <1>6, HoldsInduction
  <1>8. QED
    BY <1>1, <1>2, <1>7
-----------------------------------------------------------------------------
(* The invariant: the tree is an AVL tree, with some entries.              *)
IInv == \E S : Holds(root, S)

(* The empty tree is one. *)
LEMMA InitHolds == Init => IInv
  BY HoldsNull DEF Init, IInv

(* The entries that the keys have: what a step makes of them.              *)
LEMMA NextHolds ==
  ASSUME NEW S, Holds(root, S), [Next]_root
  PROVE  \/ \E e \in Entries : Add(e[1], e[2]) /\ Holds(root', With(S, e[1], e[2]))
         \/ \E k \in Keys : Remove(k) /\ Holds(root', Without(S, k))
         \/ Clean /\ Holds(root', {})
         \/ UNCHANGED root /\ Holds(root', S)
  <1>1. CASE \E e \in Entries : Add(e[1], e[2])
    <2>1. PICK e \in Entries : Add(e[1], e[2])
      BY <1>1
    <2>2. PICK k, f : k = e[1] /\ f = e[2]
      OBVIOUS
    <2>3. k \in Keys /\ f \in Fds
      BY <2>2 DEF Keys, Fds
    <2>4. Holds(InsertNode(root, k, f), With(S, k, f))
      BY <2>3, InsertNodeHolds DEF Inserted
    <2>5. root' = InsertNode(root, k, f)
      BY <2>1, <2>2 DEF Add
    <2>6. QED
      BY <2>1, <2>2, <2>4, <2>5
  <1>2. CASE \E k \in Keys : Remove(k)
    <2>1. PICK k \in Keys : Remove(k)
      BY <1>2
    <2>2. Holds(RemoveNode(root, k), Without(S, k))
      BY RemoveNodeHolds DEF Removed
    <2>3. root' = RemoveNode(root, k)
      BY <2>1 DEF Remove
    <2>4. QED
      BY <2>1, <2>2, <2>3
  <1>3. CASE Clean
    BY <1>3, HoldsNull DEF Clean
  <1>4. CASE UNCHANGED root
    BY <1>4
  <1>5. QED
    BY <1>1, <1>2, <1>3, <1>4 DEF Next

(* Every step keeps the invariant. *)
LEMMA NextKeeps == IInv /\ [Next]_root => IInv'
  <1> SUFFICES ASSUME IInv, [Next]_root PROVE IInv'
    OBVIOUS
  <1>1. PICK S : Holds(root, S)
    BY DEF IInv
  <1>2. \E N : Holds(root', N)
    BY <1>1, NextHolds
  <1>3. QED
    BY <1>2 DEF IInv

(* Always an AVL tree. *)
LEMMA AlwaysHolds == Spec => []IInv
  <1>1. QED
    BY InitHolds, NextKeeps, PTL DEF Spec

(* After any insertions and removals of any keys every node stores its     *)
(* height and its subtrees differ in height by one at most.                *)
THEOREM TreeIsBalanced == Spec => []BalancedEverywhere
  <1>1. IInv => BalancedEverywhere
    <2> SUFFICES ASSUME IInv PROVE BalancedEverywhere
      OBVIOUS
    <2>1. PICK S : Holds(root, S)
      BY DEF IInv
    <2>2. PICK s : s = Walk(root)
      OBVIOUS
    <2>3. WalkOf(s, S)
      BY <2>1, <2>2, WalkHolds
    <2>4. DOMAIN s = 1..Len(s)
      BY <2>3, LenProperties DEF WalkOf
    <2>5. \A i \in DOMAIN s : Sound(s[i])
      BY <2>3, <2>4 DEF WalkOf
    <2>6. QED
      BY <2>2, <2>5 DEF BalancedEverywhere, Sound
  <1>2. QED
    BY <1>1, AlwaysHolds, PTL

(* The walk of the tree meets every key once, in the order of the keys,    *)
(* and exactly the keys that has_key finds.                                *)
THEOREM WalkIsOfTheKeys == Spec => []WalkMeetsEachOnce
  <1>1. IInv => WalkMeetsEachOnce
    <2> SUFFICES ASSUME IInv PROVE WalkMeetsEachOnce
      OBVIOUS
    <2>1. PICK S : Holds(root, S)
      BY DEF IInv
    <2>2. PICK s : s = Walk(root)
      OBVIOUS
    <2>3. WalkOf(s, S)
      BY <2>1, <2>2, WalkHolds
    <2>4. DOMAIN s = 1..Len(s)
      BY <2>3, LenProperties DEF WalkOf
    <2>5. \A i, j \in DOMAIN s : i < j => s[i].key < s[j].key
      BY <2>3, <2>4 DEF WalkOf
    <2>6. ASSUME NEW k \in Keys
          PROVE  Found(root, k) # Null <=> \E i \in DOMAIN s : s[i].key = k
      <3>1. FoundIn(Found(root, k), S, k)
        BY <2>1, FoundHolds
      <3>2. Found(root, k) # Null <=> \E e \in S : e[1] = k
        BY <3>1 DEF FoundIn
      <3>3. (\E e \in S : e[1] = k) <=> \E i \in DOMAIN s : s[i].key = k
        BY <2>3, <2>4 DEF WalkOf
      <3>4. QED
        BY <3>2, <3>3
    <2>7. QED
      BY <2>2, <2>5, <2>6 DEF WalkMeetsEachOnce
  <1>2. QED
    BY <1>1, AlwaysHolds, PTL
-----------------------------------------------------------------------------
(* The refinement of SubscriberMap *)

(* The map that the implementation is taken for, of any tree.              *)
MapOf(t) ==
  [k \in Keys |-> LET node == Found(t, k) IN IF node = Null THEN NoFd ELSE node.fd]

(* The map m has the entries S.                                            *)
Maps(m, S) ==
  /\ m = [k \in Keys |-> m[k]]
  /\ \A k \in Keys :
       \/ m[k] = NoFd /\ \A e \in S : e[1] # k
       \/ /\ m[k] # NoFd /\ <<k, m[k]>> \in S
          /\ \A e \in S : e[1] = k => e = <<k, m[k]>>

(* The map of a tree has the entries the tree holds; *)
LEMMA MapHolds ==
  ASSUME NEW t, NEW S, Holds(t, S)
  PROVE  Maps(MapOf(t), S)
  <1>1. PICK m : m = MapOf(t)
    OBVIOUS
  <1>2. ASSUME NEW k \in Keys
        PROVE  \/ m[k] = NoFd /\ \A e \in S : e[1] # k
               \/ /\ m[k] # NoFd /\ <<k, m[k]>> \in S
                  /\ \A e \in S : e[1] = k => e = <<k, m[k]>>
    <2>1. PICK n : n = Found(t, k)
      OBVIOUS
    <2>2. m[k] = IF n = Null THEN NoFd ELSE n.fd
      BY <1>1, <2>1 DEF MapOf
    <2>3. FoundIn(n, S, k)
      BY <2>1, FoundHolds
    <2>4. CASE n = Null
      BY <2>2, <2>3, <2>4 DEF FoundIn
    <2>5. CASE n # Null
      <3>1. m[k] = n.fd /\ <<k, n.fd>> \in S /\ \A e \in S : e[1] = k => e = <<k, n.fd>>
        BY <2>2, <2>3, <2>5 DEF FoundIn
      <3>2. n.fd \in Fds
        BY <3>1, HoldsKeys
      <3>3. NoFd \notin Fds
        BY AvlAssumption DEF Fds
      <3>4. QED
        BY <3>1, <3>2, <3>3
    <2>6. QED
      BY <2>4, <2>5
  <1>3. m = [k \in Keys |-> m[k]]
    BY <1>1 DEF MapOf
  <1>4. QED
    BY <1>1, <1>2, <1>3 DEF Maps

(* a map is known by its entries, *)
LEMMA MapsAgree ==
  ASSUME NEW m, NEW n, NEW S, Maps(m, S), Maps(n, S)
  PROVE  m = n
  <1>1. ASSUME NEW k \in Keys PROVE m[k] = n[k]
    <2>1. CASE m[k] = NoFd /\ \A e \in S : e[1] # k
      <3>1. ~(<<k, n[k]>> \in S)
        BY <2>1
      <3>2. QED
        BY <2>1, <3>1 DEF Maps
    <2>2. CASE /\ m[k] # NoFd /\ <<k, m[k]>> \in S
               /\ \A e \in S : e[1] = k => e = <<k, m[k]>>
      <3>1. <<k, m[k]>> = <<k, n[k]>>
        BY <2>2 DEF Maps
      <3>2. QED
        BY <3>1
    <2>3. QED
      BY <2>1, <2>2 DEF Maps
  <1>2. m = [k \in Keys |-> m[k]] /\ n = [k \in Keys |-> n[k]]
    BY DEF Maps
  <1>3. [k \in Keys |-> m[k]] = [k \in Keys |-> n[k]]
    BY <1>1
  <1>4. QED
    BY <1>2, <1>3

(* and the abstract actions do to the map what the operations do to the    *)
(* entries.                                                                *)
LEMMA MapWith ==
  ASSUME NEW m, NEW S, Maps(m, S), NEW key \in Keys, NEW fd \in Fds
  PROVE  Maps(IF m[key] = NoFd THEN [m EXCEPT ![key] = fd] ELSE m, With(S, key, fd))
  <1>1. fd # NoFd
    BY AvlAssumption DEF Fds
  <1>2. CASE m[key] = NoFd
    <2>1. PICK n : n = [m EXCEPT ![key] = fd]
      OBVIOUS
    <2>2. m = [k \in Keys |-> m[k]]
      BY DEF Maps
    <2>3. n = [k \in Keys |-> IF k = key THEN fd ELSE m[k]]
      BY <2>1, <2>2
    <2>4. \A e \in S : e[1] # key
      BY <1>2 DEF Maps
    <2>5. With(S, key, fd) = S \cup {<<key, fd>>}
      BY <2>4 DEF With
    <2>6. ASSUME NEW k \in Keys
          PROVE  \/ n[k] = NoFd /\ \A e \in With(S, key, fd) : e[1] # k
                 \/ /\ n[k] # NoFd /\ <<k, n[k]>> \in With(S, key, fd)
                    /\ \A e \in With(S, key, fd) : e[1] = k => e = <<k, n[k]>>
      <3>1. CASE k = key
        BY <1>1, <2>3, <2>4, <2>5, <3>1
      <3>2. CASE k # key
        <4>1. n[k] = m[k]
          BY <2>3, <3>2
        <4>2. \A e \in With(S, key, fd) : e[1] = k => e \in S
          BY <2>5, <3>2
        <4>3. QED
          BY <2>5, <3>2, <4>1, <4>2 DEF Maps
      <3>3. QED
        BY <3>1, <3>2
    <2>7. n = [k \in Keys |-> n[k]]
      BY <2>3
    <2>8. QED
      BY <1>2, <2>1, <2>6, <2>7 DEF Maps
  <1>3. CASE m[key] # NoFd
    <2>1. <<key, m[key]>> \in S /\ <<key, m[key]>>[1] = key
      BY <1>3 DEF Maps
    <2>2. With(S, key, fd) = S
      BY <2>1 DEF With
    <2>3. QED
      BY <1>3, <2>2
  <1>4. QED
    BY <1>2, <1>3

(* Removal takes the key from the map. *)
LEMMA MapWithout ==
  ASSUME NEW m, NEW S, Maps(m, S), NEW key \in Keys
  PROVE  Maps([m EXCEPT ![key] = NoFd], Without(S, key))
  <1>1. PICK n : n = [m EXCEPT ![key] = NoFd]
    OBVIOUS
  <1>2. m = [k \in Keys |-> m[k]]
    BY DEF Maps
  <1>3. n = [k \in Keys |-> IF k = key THEN NoFd ELSE m[k]]
    BY <1>1, <1>2
  <1>4. ASSUME NEW k \in Keys
        PROVE  \/ n[k] = NoFd /\ \A e \in Without(S, key) : e[1] # k
               \/ /\ n[k] # NoFd /\ <<k, n[k]>> \in Without(S, key)
                  /\ \A e \in Without(S, key) : e[1] = k => e = <<k, n[k]>>
    <2>1. CASE k = key
      BY <1>3, <2>1 DEF Without
    <2>2. CASE k # key
      <3>1. n[k] = m[k]
        BY <1>3, <2>2
      <3>2. Without(S, key) \subseteq S
        BY DEF Without
      <3>3. <<k, m[k]>> \in S => <<k, m[k]>> \in Without(S, key)
        BY <2>2 DEF Without
      <3>4. QED
        BY <3>1, <3>2, <3>3 DEF Maps
    <2>3. QED
      BY <2>1, <2>2
  <1>5. n = [k \in Keys |-> n[k]]
    BY <1>3
  <1>6. QED
    BY <1>1, <1>4, <1>5 DEF Maps

(* The map without entries. *)
LEMMA MapEmpty == Maps([k \in Keys |-> NoFd], {})
  BY DEF Maps

(* avl.h: to its callers the tree is a map from keys to descriptors, in    *)
(* which a key that is there keeps its descriptor.                         *)
THEOREM TreeIsAMap == Spec => ImplementsSubscriberMap
  <1>1. Init => Abstract!Init
    <2> SUFFICES ASSUME Init PROVE Abstract!Init
      OBVIOUS
    <2>1. Maps(MapOf(root), {})
      BY HoldsNull, MapHolds DEF Init
    <2>2. MapOf(root) = [k \in Keys |-> NoFd]
      BY <2>1, MapEmpty, MapsAgree
    <2>3. QED
      BY <2>2 DEF Abstract!Init, Abstract!Keys, MapOf, Keys
  <1>2. IInv /\ [Next]_root => [Abstract!Next]_(MapOf(root))
    <2> SUFFICES ASSUME IInv, [Next]_root PROVE [Abstract!Next]_(MapOf(root))
      OBVIOUS
    <2>1. PICK S : Holds(root, S)
      BY DEF IInv
    <2>2. PICK m, n : m = MapOf(root) /\ n = MapOf(root')
      OBVIOUS
    <2>3. Maps(m, S)
      BY <2>1, <2>2, MapHolds
    <2>4. ASSUME NEW e \in Entries, Holds(root', With(S, e[1], e[2]))
          PROVE  Abstract!Add(e[1], e[2])
      <3>1. PICK k, f : k = e[1] /\ f = e[2]
        OBVIOUS
      <3>2. k \in Keys /\ f \in Fds
        BY <3>1 DEF Keys, Fds
      <3>3. PICK o : o = IF m[k] = NoFd THEN [m EXCEPT ![k] = f] ELSE m
        OBVIOUS
      <3>4. Maps(o, With(S, k, f))
        BY <2>3, <3>2, <3>3, MapWith
      <3>5. Maps(n, With(S, k, f))
        BY <2>2, <2>4, <3>1, MapHolds
      <3>6. n = o
        BY <3>4, <3>5, MapsAgree
      <3>7. QED
        BY <2>2, <3>1, <3>3, <3>6 DEF Abstract!Add, MapOf
    <2>5. ASSUME NEW k \in Keys, Holds(root', Without(S, k))
          PROVE  Abstract!Remove(k)
      <3>1. Maps([m EXCEPT ![k] = NoFd], Without(S, k))
        BY <2>3, MapWithout
      <3>2. Maps(n, Without(S, k))
        BY <2>2, <2>5, MapHolds
      <3>3. n = [m EXCEPT ![k] = NoFd]
        BY <3>1, <3>2, MapsAgree
      <3>4. QED
        BY <2>2, <3>3 DEF Abstract!Remove, MapOf
    <2>6. ASSUME Holds(root', {})
          PROVE  Abstract!Clean
      <3>1. Maps(n, {})
        BY <2>2, <2>6, MapHolds
      <3>2. n = [k \in Keys |-> NoFd]
        BY <3>1, MapEmpty, MapsAgree
      <3>3. QED
        BY <2>2, <3>2 DEF Abstract!Clean, Abstract!Keys, MapOf, Keys
    <2>7. Abstract!Keys = Keys
      BY DEF Abstract!Keys, Keys
    <2>8. QED
      BY <2>1, <2>4, <2>5, <2>6, <2>7, NextHolds DEF Abstract!Next
  <1>3. QED
    BY <1>1, <1>2, AlwaysHolds, PTL DEF Spec, MapOf, ImplementsSubscriberMap, Abstract!Spec
=============================================================================
