----------------------------- MODULE MCReactor ------------------------------
(* A small instance of Reactor for TLC.                                    *)
EXTENDS Reactor
CONSTANTS k1, k2, k3
=============================================================================
