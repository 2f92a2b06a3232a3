-------------------------- MODULE MCServerConfigure --------------------------
(***************************************************************************)
(* Constants for the TLC runs of ServerConfigure.                          *)
(***************************************************************************)
EXTENDS ServerConfigure

CONSTANTS k1, w1, w2, w3, none

OneKey == [r \in Req |-> k1]

(* The ring of k1 starts where the chain ends. *)
LastHead == [k \in Key |-> N - 1]
FirstHead == [k \in Key |-> 0]
=============================================================================
