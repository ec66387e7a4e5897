------------------------------ MODULE MCEngine -------------------------------
(* A small instance of Engine for TLC.                                     *)
EXTENDS Engine
CONSTANTS r1, r2, r3, r4

MCStart == <<r1, r2>>
=============================================================================
