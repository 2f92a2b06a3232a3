------------------------- MODULE PropagateDispatcher -------------------------
(***************************************************************************)
(* The asynchronous PROPAGATE dispatcher: one queue and a pool of worker   *)
(* threads per server process, the same class in chain_replication.cpp,    *)
(* craq_replication.cpp and crown_replication.cpp.                         *)
(*                                                                         *)
(* A worker takes the oldest task, calls Propagate on the stub stored in   *)
(* the task and waits for the reply.  With several workers several calls   *)
(* of one node are in flight, and the receiving server runs each in a      *)
(* thread of its own: calls overtake one another.  A failed call is logged *)
(* and forgotten; there is no retry.                                       *)
(*                                                                         *)
(* A Propagate call and the activation of handle_propagate it starts are   *)
(* one record of rpc.  pc says how far the handler has come ("sent": not   *)
(* started), held whether a worker of the caller still waits for it.       *)
(***************************************************************************)
EXTENDS Naturals, Sequences, FiniteSets, ClientRequests

CONSTANTS Node,      \* the server processes
          Workers    \* size of the pool: min(hardware_concurrency, 8), or 4

ASSUME WorkersAssumption == Workers \in Nat \ {0}

VARIABLES queue,  \* queue_ of each node's dispatcher
          rpc,    \* the Propagate calls in flight
          lost    \* for the properties: whether a call has been lost so far

(* message PropagateRequest; key and value are those of req, client_addr   *)
(* and request_id identify it.                                             *)
PropagateRequest == [req: Req, version: Nat, origin: Node]

(* struct PropagateTask *)
PropagateTask == [successor: Node, msg: PropagateRequest]

Call == [from: Node, to: Node, msg: PropagateRequest,
         pc: {"sent", "recorded", "committed", "acked"}, held: BOOLEAN]

DispatcherTypeOK == /\ queue \in [Node -> Seq(PropagateTask)]
                    /\ rpc \subseteq Call
                    /\ lost \in BOOLEAN

DispatcherInit == /\ queue = [n \in Node |-> <<>>]
                  /\ rpc = {}
                  /\ lost = FALSE

-----------------------------------------------------------------------------
(* enqueue: n hands m over to be sent to s; without a stub for s the       *)
(* message is dropped with a log line.                                     *)
DropInsteadOfEnqueue(n, s, m) == UNCHANGED queue
Enqueue(n, s, m) ==
    queue' = IF s \in Node
             THEN [queue EXCEPT ![n] = Append(@, [successor |-> s, msg |-> m])]
             ELSE queue

(* The tasks n still has to send, and the calls its workers wait for *)
Tasks(n) == {queue[n][i] : i \in 1 .. Len(queue[n])}
Waiting(n) == {c \in rpc : c.from = n /\ c.held}

(* worker_loop: a free worker takes the front task and calls Propagate *)
WorkerSend(n) ==
    /\ queue[n] # <<>>
    /\ Cardinality(Waiting(n)) < Workers
    /\ LET t == Head(queue[n])
       IN  rpc' = rpc \cup {[from |-> n, to |-> t.successor, msg |-> t.msg,
                             pc |-> "sent", held |-> TRUE]}
    /\ queue' = [queue EXCEPT ![n] = Tail(@)]

(* The call fails before it reaches the handler: worker_loop logs it *)
RpcLost(c) ==
    /\ c.pc = "sent"
    /\ rpc' = rpc \ {c}
    /\ lost' = TRUE
    /\ UNCHANGED queue

(* The call fails for the caller, whose worker goes on, while the request  *)
(* is or will be handled all the same.                                     *)
RpcAbandoned(c) ==
    /\ c.held
    /\ rpc' = (rpc \ {c}) \cup {[c EXCEPT !.held = FALSE]}
    /\ UNCHANGED <<queue, lost>>

(* The handler of c reaches the point pc, or returns to its caller. *)
Advance(c, pc) == rpc' = (rpc \ {c}) \cup {[c EXCEPT !.pc = pc]}
Return(c) == rpc' = rpc \ {c}
=============================================================================
