-------------------------- MODULE MCSubscriptions --------------------------
(***************************************************************************)
(* Small instances of Subscriptions for TLC.                               *)
(***************************************************************************)
EXTENDS Subscriptions

(* The first key starts with another letter than the rest. *)
OwnLists == [k \in Keys |-> IF k = "k1" THEN 1 ELSE 2]

(* Session 0 can reach its limit and ask for one key more, or leave one    *)
(* while another is deleted; session 1 can share a key with it.            *)
UnevenRequests == [s \in Sessions |-> IF s = 0 THEN 3 ELSE 1]

(* Session 0 can subscribe and disconnect, session 1 subscribe. *)
FewRequests == [s \in Sessions |-> IF s = 0 THEN 2 ELSE 1]
=============================================================================
