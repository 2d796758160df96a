---------------------------- MODULE MCStorefront ----------------------------
(* Small instances of Storefront for TLC. *)
EXTENDS Storefront, TLC

\* A unit that turns out to be missing.
MCShrinkage == {-1}

Symmetric == Permutations(Stock) \cup Permutations(Checkout) \cup Permutations(Worker)
                \cup Permutations(Request) \cup Permutations(EventId)
=============================================================================
