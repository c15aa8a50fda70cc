------------------------------ MODULE AvlTree ------------------------------
(***************************************************************************)
(* The AVL trees of server/avl.c, in which every key of the store keeps    *)
(* the sessions subscribed to it (with the descriptor of their             *)
(* notification pipe) and every session the keys it subscribed.  Every     *)
(* operation runs under the lock of its tree and is one step here; what    *)
(* several threads do with several trees is in module Subscriptions.       *)
(*                                                                         *)
(* A node is a record of the key, the descriptor, the two subtrees and the *)
(* height stored in it, which insertion and removal trust.  malloc and     *)
(* strdup do not fail.  A recursive function of the code is a recursive    *)
(* function here, over the nodes below the one it is called with.          *)
(***************************************************************************)
EXTENDS Integers, Sequences

CONSTANTS Entries,  \* the pairs <<key, fd>> a caller may add
          NoFd

VARIABLE root

ASSUME AvlAssumption == \A e \in Entries : e[1] \in Int /\ e[2] # NoFd

Keys == {e[1] : e \in Entries}
Fds == {e[2] : e \in Entries}

Null == <<>>

(* create_node: a leaf *)
CreateNode(key, fd) ==
  [key |-> key, fd |-> fd, left |-> Null, right |-> Null, height |-> 1]

Height(node) == IF node = Null THEN 0 ELSE node.height

Taller(a, b) == IF a > b THEN a ELSE b

GetBalance(node) ==
  IF node = Null THEN 0 ELSE Height(node.left) - Height(node.right)

HeightUpdated(node) ==
  [node EXCEPT !.height = Taller(Height(node.left), Height(node.right)) + 1]

(* Mutant of RightRotate: the height of the lower node is not updated.     *)
RightRotateStale(y) ==
  HeightUpdated([y.left EXCEPT !.right = [y EXCEPT !.left = y.left.right]])

RightRotate(y) ==
  HeightUpdated([y.left EXCEPT
    !.right = HeightUpdated([y EXCEPT !.left = y.left.right])])

LeftRotate(y) ==
  HeightUpdated([y.right EXCEPT
    !.left = HeightUpdated([y EXCEPT !.right = y.right.left])])

(* Mutant of BalanceNode: the middle cases are rotated once only.          *)
RotateOnce(node) ==
  IF GetBalance(node) > 1 THEN RightRotate(node)
  ELSE IF GetBalance(node) < -1 THEN LeftRotate(node)
  ELSE node

BalanceNode(node) ==
  LET balance == GetBalance(node)
  IN  IF balance > 1 /\ GetBalance(node.left) >= 0 THEN RightRotate(node)
      ELSE IF balance > 1 THEN RightRotate([node EXCEPT !.left = LeftRotate(@)])
      ELSE IF balance < -1 /\ GetBalance(node.right) <= 0 THEN LeftRotate(node)
      ELSE IF balance < -1 THEN LeftRotate([node EXCEPT !.right = RightRotate(@)])
      ELSE node

(* What insertion and removal do to a node once a subtree has changed. *)
Rebalanced(node) == BalanceNode(HeightUpdated(node))

(* The trees of at most h levels; their nodes are what the recursive       *)
(* functions below may be called with.                                     *)
Trees[h \in Nat] ==
  IF h = 0 THEN {Null}
  ELSE LET below == Trees[h - 1]
       IN  {Null} \cup [key : Keys, fd : Fds, left : below, right : below, height : Nat]

InsertNode(node, key, fd) ==
  LET inserted[n \in Trees[Height(node)]] ==
        IF n = Null THEN CreateNode(key, fd)
        ELSE IF key < n.key
        THEN Rebalanced([n EXCEPT !.left = inserted[n.left]])
        ELSE IF key > n.key
        THEN Rebalanced([n EXCEPT !.right = inserted[n.right]])
        ELSE n
  IN  inserted[node]

(* Mutant of MinValueNode: the root of the subtree for its least node.     *)
RootNode(node) == node

MinValueNode(node) ==
  LET least[n \in Trees[Height(node)]] ==
        IF n = Null \/ n.left = Null THEN n ELSE least[n.left]
  IN  least[node]

(* Mutant of Replaced: the descriptor of the successor is not copied.      *)
KeyReplaced(node, temp) == [node EXCEPT !.key = temp.key]

(* The node takes the key and the descriptor of its successor.             *)
Replaced(node, temp) == [node EXCEPT !.key = temp.key, !.fd = temp.fd]

(* removed[n][k] is n without the key k, which becomes that of the         *)
(* successor when n has taken it and it has to leave the right subtree.    *)
RemoveNode(node, key) ==
  LET removed[n \in Trees[Height(node)]] == [k \in Keys |->
        IF n = Null THEN Null
        ELSE IF k < n.key
        THEN Rebalanced([n EXCEPT !.left = removed[n.left][k]])
        ELSE IF k > n.key
        THEN Rebalanced([n EXCEPT !.right = removed[n.right][k]])
        ELSE IF n.left = Null /\ n.right = Null THEN Null
        ELSE IF n.left = Null THEN Rebalanced(n.right)
        ELSE IF n.right = Null THEN Rebalanced(n.left)
        ELSE LET temp == MinValueNode(n.right)
             IN  Rebalanced([Replaced(n, temp) EXCEPT
                               !.right = removed[n.right][temp.key]])]
  IN  removed[node][key]

(* The descent of has_key: the node of the key, or Null.                   *)
Found(node, key) ==
  LET found[n \in Trees[Height(node)]] ==
        IF n = Null THEN Null
        ELSE IF key < n.key THEN found[n.left]
        ELSE IF key > n.key THEN found[n.right]
        ELSE n
  IN  found[node]

(* The order in which send_to_all_fds and apply_to_all_nodes visit.        *)
Walk(node) ==
  LET walk[n \in Trees[Height(node)]] ==
        IF n = Null THEN <<>> ELSE walk[n.left] \o <<n>> \o walk[n.right]
  IN  walk[node]
-----------------------------------------------------------------------------
Init == root = Null

Add(key, fd) == root' = InsertNode(root, key, fd)

Remove(key) == root' = RemoveNode(root, key)

Clean == root' = Null

Next ==
  \/ \E e \in Entries : Add(e[1], e[2])
  \/ \E k \in Keys : Remove(k)
  \/ Clean

Spec == Init /\ [][Next]_root
-----------------------------------------------------------------------------
(* Properties *)

(* After any sequence of insertions and removals every node stores its     *)
(* height, which the next operation trusts, and its two subtrees differ in *)
(* height by one at most (insert_node, remove_node, the four cases of      *)
(* balance_node).  That the stored height is the real one follows: it is   *)
(* one more than that of the higher subtree, all the way down to Null.     *)
BalancedEverywhere ==
  LET nodes == Walk(root)
  IN  \A i \in DOMAIN nodes :
        /\ nodes[i].height = Taller(Height(nodes[i].left), Height(nodes[i].right)) + 1
        /\ GetBalance(nodes[i]) \in {-1, 0, 1}

(* send_to_all_fds and apply_to_all_nodes meet every node once, in the     *)
(* order of the keys, and the keys they meet are those has_key finds:      *)
(* whoever subscribed is told of a change, and nobody is told twice.       *)
WalkMeetsEachOnce ==
  LET nodes == Walk(root)
  IN  /\ \A i, j \in DOMAIN nodes : i < j => nodes[i].key < nodes[j].key
      /\ \A k \in Keys :
           Found(root, k) # Null <=> \E i \in DOMAIN nodes : nodes[i].key = k

(* Through rotations and the replacement of removed nodes, the tree is the *)
(* map from keys to descriptors that has_key and the walks take it for.    *)
Abstract ==
  INSTANCE SubscriberMap WITH
    fdOf <- [k \in Keys |-> LET node == Found(root, k)
                            IN  IF node = Null THEN NoFd ELSE node.fd]

ImplementsSubscriberMap == Abstract!Spec
=============================================================================
