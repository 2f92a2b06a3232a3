--------------------------- MODULE MCCrownTopology ---------------------------
(***************************************************************************)
(* Constants for the TLC runs of CrownTopology.                            *)
(***************************************************************************)
EXTENDS CrownTopology, TLC

CONSTANTS e1, e2, e3, e4, null

(* The names of the servers do not matter. *)
Endpoints4 == Permutations(Endpoint)
=============================================================================
