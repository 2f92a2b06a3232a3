--------------------------- MODULE MCClientPending ---------------------------
(***************************************************************************)
(* The runs of ClientPending; its constants are numbers and sets of them.  *)
(***************************************************************************)
EXTENDS ClientPending
=============================================================================
