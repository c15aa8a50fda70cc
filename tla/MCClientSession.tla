-------------------------- MODULE MCClientSession --------------------------
(***************************************************************************)
(* A small instance of ClientSession for TLC: one client can subscribe,    *)
(* unsubscribe and disconnect, the other sends one request.                *)
(***************************************************************************)
EXTENDS ClientSession, TLC

CONSTANTS c1, c2

TwoClients == {c1, c2}
Requests == (c1 :> 3) @@ (c2 :> 0)
=============================================================================
