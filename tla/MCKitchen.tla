------------------------------ MODULE MCKitchen ------------------------------
(* Small instances of Kitchen, with the orders it is cut from, for TLC. *)
EXTENDS Kitchen, TLC

MCNoDelta == {}
Symmetric == Permutations(Request)
==============================================================================
