--------------------------- MODULE ReplicaServer ---------------------------
(***************************************************************************)
(* What the servers of every mode share: the support_ object of each node  *)
(* and its calls to the clients (ChainStyleReplicationSupport), beside the *)
(* dispatcher.                                                             *)
(***************************************************************************)
EXTENDS ChainStyleSupport, PropagateDispatcher

VARIABLES store,    \* by_key_ of each node's support_
          acked     \* the Ack calls the clients received

ServerTypeOK ==
    /\ DispatcherTypeOK
    /\ store \in [Node -> [Key -> KeyState]]
    /\ acked \subseteq [req: Req, version: Nat]

ServerInit ==
    /\ DispatcherInit
    /\ store = [n \in Node |-> [k \in Key |-> FreshKey]]
    /\ acked = {}

(* One critical section of node n: s becomes its state of key k. *)
UpdateKey(n, k, s) == store' = [store EXCEPT ![n][k] = s]

(* send_client_ack: nothing is sent without an address, and a failed call  *)
(* is only logged.                                                         *)
AckRequest(m) == [req |-> m.req, version |-> m.version]

SendClientAck(m) ==
    \/ m.req \in Silent /\ UNCHANGED <<acked, lost>>
    \/ m.req \notin Silent /\ acked' = acked \cup {AckRequest(m)} /\ UNCHANGED lost
    \/ m.req \notin Silent /\ lost' = TRUE /\ UNCHANGED acked
=============================================================================
