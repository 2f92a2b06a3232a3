------------------------- MODULE MCCRAQReplication -------------------------
(***************************************************************************)
(* Constants for the TLC runs of CRAQReplication.                          *)
(***************************************************************************)
EXTENDS CRAQReplication, TLC

CONSTANTS k1, k2, w1, w2, w3, read1, read2, none

OneKey == [r \in Req |-> k1]
(* w3 writes a second key *)
TwoKeys == [r \in Req |-> IF r = w3 THEN k2 ELSE k1]

(* Requests of one key are interchangeable, and so are the reads. *)
Writes == Permutations(Req)
WritesAndReads == Writes \cup Permutations(Reader)
=============================================================================
