---------------------------- MODULE MCGqlClient -----------------------------
(* Small instances of GqlClient for TLC.                                   *)
EXTENDS GqlClient, TLC

CONSTANTS k1, k2, v1, v2

\* Clients are interchangeable, and so are the values they put.
ClientSymmetry == Permutations(Client) \cup Permutations(Value)

=============================================================================
