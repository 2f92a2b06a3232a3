------------------------- MODULE MCCROWNReplication -------------------------
(***************************************************************************)
(* Constants for the TLC runs of CROWNReplication.                         *)
(***************************************************************************)
EXTENDS CROWNReplication, TLC

CONSTANTS k1, k2, w1, w2, w3, none

OneKey == [r \in Req |-> k1]
(* w3 writes a second key *)
TwoKeys == [r \in Req |-> IF r = w3 THEN k2 ELSE k1]

(* Writes of k1 wrap round the end of the index range; k2 starts at 0. *)
Heads == [k \in Key |-> IF k = k1 THEN N - 1 ELSE 0]

(* Requests of one key are interchangeable. *)
Writes == Permutations(Req)
=============================================================================
