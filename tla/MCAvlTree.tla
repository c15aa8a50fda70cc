----------------------------- MODULE MCAvlTree -----------------------------
(***************************************************************************)
(* Ten keys, each with its descriptor; key 5 may come with either of two.  *)
(***************************************************************************)
EXTENDS AvlTree

TenKeys == {<<k, 100 + k>> : k \in 1..10} \cup {<<5, 200>>}
=============================================================================
