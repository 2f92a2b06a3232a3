---------------------------- MODULE MCAckWorker ----------------------------
(***************************************************************************)
(* Constants for the TLC runs of AckWorker.                                *)
(***************************************************************************)
EXTENDS AckWorker

CONSTANTS a1, a2, a3
=============================================================================
