---------------------------- MODULE MCInventory ----------------------------
(* Small instances of Inventory for TLC. *)
EXTENDS Inventory

\* A delivery of one unit, and a correction of one unit that is missing.
MCDelta == {-1, 1}
=============================================================================
