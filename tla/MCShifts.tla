------------------------------ MODULE MCShifts ------------------------------
(* Small instances of Shifts for TLC. *)
EXTENDS Shifts, TLC

MCTotal == [o \in Checkout |-> 2]
MCNoDelta == {}
Symmetric == Permutations(Request)
=============================================================================
