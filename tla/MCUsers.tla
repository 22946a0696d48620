------------------------------ MODULE MCUsers -------------------------------
(* An instance of Users for TLC. *)
EXTENDS Users, TLC
CONSTANTS c1, c2, alice, bob, carol
=============================================================================
