---------------------------- MODULE MCIdempotency ----------------------------
(* A small instance of Idempotency for TLC. *)
EXTENDS Idempotency, TLC

Symmetric == Permutations(Request) \cup Permutations(Body)
==============================================================================
