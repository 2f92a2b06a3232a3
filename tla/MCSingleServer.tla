--------------------------- MODULE MCSingleServer ---------------------------
(***************************************************************************)
(* Constants for the TLC run of SingleServer.                              *)
(***************************************************************************)
EXTENDS SingleServer

CONSTANTS k1, k2, w1, w2, w3, read1, none

(* w3 writes a second key *)
TwoKeys == [r \in Req |-> IF r = w3 THEN k2 ELSE k1]
=============================================================================
