---------------------------- MODULE MCPosPayments ----------------------------
(* Small instances of PosPayments for TLC. *)
EXTENDS PosPayments, TLC

MCTotal == [o \in Checkout |-> 2]
MCNoDelta == {}
==============================================================================
