--------------------------- MODULE SubscriberMap ---------------------------
(***************************************************************************)
(* What avl.h promises of a tree: a map from keys to file descriptors.  A  *)
(* key that is there keeps its descriptor when it is added again.          *)
(***************************************************************************)
CONSTANTS Entries,  \* the pairs <<key, fd>> a caller may add
          NoFd      \* the key is not there

Keys == {e[1] : e \in Entries}
Fds == {e[2] : e \in Entries}

VARIABLE fdOf

Init == fdOf = [k \in Keys |-> NoFd]

Add(k, fd) ==
  fdOf' = IF fdOf[k] = NoFd THEN [fdOf EXCEPT ![k] = fd] ELSE fdOf

Remove(k) == fdOf' = [fdOf EXCEPT ![k] = NoFd]

Clean == fdOf' = [k \in Keys |-> NoFd]

Next ==
  \/ \E e \in Entries : Add(e[1], e[2])
  \/ \E k \in Keys : Remove(k)
  \/ Clean

Spec == Init /\ [][Next]_fdOf
=============================================================================
