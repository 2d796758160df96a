----------------------------- MODULE MCShipments -----------------------------
(* A small instance of Shipments for TLC. *)
EXTENDS Shipments, TLC

CONSTANTS i1, i2

MCOrdered == i1 :> 1 @@ i2 :> 1
Symmetric == Permutations(Request)

\* Nothing is claimed of what follows a stale commit.
NotStale == ~stale
==============================================================================
