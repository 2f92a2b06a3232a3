------------------------- MODULE MCChainReplication -------------------------
(***************************************************************************)
(* Constants for the TLC runs of ChainReplication.                         *)
(***************************************************************************)
EXTENDS ChainReplication, TLC

CONSTANTS k1, k2, w1, w2, w3, none

OneKey == [r \in Req |-> k1]
(* w3 writes a second key *)
TwoKeys == [r \in Req |-> IF r = w3 THEN k2 ELSE k1]

(* Requests of one key are interchangeable. *)
Writes == Permutations(Req)
=============================================================================
