--------------------------- MODULE ClientRequests ---------------------------
(***************************************************************************)
(* The write requests the clients issue: message WriteRequest of           *)
(* proto/chain.proto.  A request stands for its (client_addr, request_id)  *)
(* and for the value it carries, so no two requests carry the same value   *)
(* and a mix-up of values is visible.                                      *)
(***************************************************************************)
CONSTANTS Key,      \* the keys of the store
          Req,      \* the write requests
          KeyOf,    \* the key each request writes
          NoReq,    \* the value of a key that has none: the empty string
          Silent    \* requests without a client_addr: those of kv_client

ASSUME KeyOfAssumption == KeyOf \in [Req -> Key]
ASSUME NoReqAssumption == NoReq \notin Req
ASSUME SilentAssumption == Silent \subseteq Req
=============================================================================
