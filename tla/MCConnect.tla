----------------------------- MODULE MCConnect -----------------------------
(* A small instance of Connect: the keys, and what is not a key, by name. *)
EXTENDS Connect
=============================================================================
