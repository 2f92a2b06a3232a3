-------------------------- MODULE CROWNReplication --------------------------
(***************************************************************************)
(* CROWN mode (src/src/replication/crown/crown_replication.cpp): the nodes *)
(* form a ring, every key has a head of its own (its hash modulo the ring  *)
(* size) and its writes travel clockwise from there to the node before the *)
(* head, which commits them and serves the reads of the key.               *)
(*                                                                         *)
(* No server knows which node is the head or the tail of a key: clients    *)
(* route by the hash, the node that gets a write takes it and puts its own *)
(* index in the message, and the tail is computed from that index.         *)
(***************************************************************************)
EXTENDS ReplicaServer

CONSTANTS N,          \* crown_node_count
          HeadOf,     \* head_index of each key: fnv1a64(key) % N
          Misrouted   \* the writes sent to a node of the sender's choice

ASSUME RingAssumption ==
    /\ N \in Nat \ {0} /\ Node = 0 .. N-1
    /\ HeadOf \in [Key -> Node]
    /\ Misrouted \subseteq Req

VARIABLES write,      \* how far handle_write of each request has come
          answer      \* the last answer to a read of each key

vars == <<store, queue, rpc, lost, write, acked, answer>>

(* The ring of build_crown_config, in the order of the indices.  The       *)
(* client accepts other rings as well: see CrownTopology.                  *)
Successor(n) == (n + 1) % N

(* crown_tail_for of the client, is_request_tail_node of the server *)
TailIndex(head) == (head + N - 1) % N
TailOf(k) == TailIndex(HeadOf[k])
IsLastNode(n, m) == n = N - 1
IsRequestTailNode(n, m) == n = TailIndex(m.origin)

MessageWithoutOrigin(r) == [req |-> r, version |-> write[r].version, origin |-> NoReq]
Message(r) == [req |-> r, version |-> write[r].version, origin |-> write[r].node]

TypeOK ==
    /\ ServerTypeOK
    /\ write \in [Req -> [pc: {"idle", "assigned", "recorded", "committed",
                               "returned"},
                          node: Node, version: Nat]]
    /\ answer \in [Key -> [found: BOOLEAN, value: Req \cup {NoReq}, version: Nat]]

Init ==
    /\ ServerInit
    /\ write = [r \in Req |-> [pc |-> "idle", node |-> HeadOf[KeyOf[r]], version |-> 0]]
    /\ answer = [k \in Key |-> NotFound]

-----------------------------------------------------------------------------
WriteAt(r, pc) == write' = [write EXCEPT ![r].pc = pc]

(* handle_write: any node takes any write; the client routes it.  The      *)
(* smoke test and a client with another configuration route it elsewhere.  *)
WriteAssign(r, n) ==
    /\ write[r].pc = "idle"
    /\ n = HeadOf[KeyOf[r]] \/ r \in Misrouted
    /\ LET s == AssignNextVersion(store[n][KeyOf[r]])
       IN  /\ UpdateKey(n, KeyOf[r], s)
           /\ write' = [write EXCEPT ![r] =
                          [pc |-> "assigned", node |-> n, version |-> s.next]]
    /\ UNCHANGED <<queue, rpc, acked, lost, answer>>

WriteRecord(r) ==
    /\ write[r].pc = "assigned"
    /\ LET n == write[r].node
           k == KeyOf[r]
       IN  UpdateKey(n, k, RecordLocalWriteIfNewer(store[n][k], r, write[r].version))
    /\ WriteAt(r, "recorded")
    /\ UNCHANGED <<queue, rpc, acked, lost, answer>>

WriteForward(r) ==
    /\ write[r].pc = "recorded"
    /\ N > 1
    /\ Enqueue(write[r].node, Successor(write[r].node), Message(r))
    /\ WriteAt(r, "returned")
    /\ UNCHANGED <<store, rpc, acked, lost, answer>>

(* A ring of one node commits and acknowledges in the handler. *)
WriteCommit(r) ==
    /\ write[r].pc = "recorded"
    /\ N = 1
    /\ LET n == write[r].node
           k == KeyOf[r]
       IN  UpdateKey(n, k, MarkVersionCommittedIfNewer(store[n][k], r, write[r].version))
    /\ WriteAt(r, "committed")
    /\ UNCHANGED <<queue, rpc, acked, lost, answer>>

WriteAck(r) ==
    /\ write[r].pc = "committed"
    /\ SendClientAck(Message(r))
    /\ WriteAt(r, "returned")
    /\ UNCHANGED <<store, queue, rpc, answer>>

WriteStep(r) == WriteRecord(r) \/ WriteForward(r) \/ WriteCommit(r) \/ WriteAck(r)

(* The requests whose handle_write is running *)
Handling == {r \in Req : write[r].pc \in {"assigned", "recorded", "committed"}}

-----------------------------------------------------------------------------
(* handle_propagate, for the call c.  Every version sent is non-zero and   *)
(* every origin an index of the ring, so neither check throws.             *)

PropagateRecord(c) ==
    /\ c.pc = "sent"
    /\ LET k == KeyOf[c.msg.req]
       IN  UpdateKey(c.to, k,
                     RecordLocalWriteIfNewer(store[c.to][k], c.msg.req, c.msg.version))
    /\ Advance(c, "recorded")
    /\ UNCHANGED <<queue, write, acked, lost, answer>>

PropagateForward(c) ==
    /\ c.pc = "recorded"
    /\ ~IsRequestTailNode(c.to, c.msg)
    /\ Enqueue(c.to, Successor(c.to), c.msg)
    /\ Return(c)
    /\ UNCHANGED <<store, write, acked, lost, answer>>

PropagateCommit(c) ==
    /\ c.pc = "recorded"
    /\ IsRequestTailNode(c.to, c.msg)
    /\ LET k == KeyOf[c.msg.req]
       IN  UpdateKey(c.to, k,
                     MarkVersionCommittedIfNewer(store[c.to][k], c.msg.req, c.msg.version))
    /\ Advance(c, "committed")
    /\ UNCHANGED <<queue, write, acked, lost, answer>>

PropagateAck(c) ==
    /\ c.pc = "committed"
    /\ SendClientAck(c.msg)
    /\ Return(c)
    /\ UNCHANGED <<store, queue, write, answer>>

PropagateStep(c) ==
    PropagateRecord(c) \/ PropagateForward(c) \/ PropagateCommit(c) \/ PropagateAck(c)

-----------------------------------------------------------------------------
(* handle_read: any node answers with its committed value, if it has one *)
ReadLatestInstead(n, k) ==
    /\ ReadLatestSeen(store[n][k]).found
    /\ answer' = [answer EXCEPT ![k] = ReadLatestSeen(store[n][k])]
    /\ UNCHANGED <<store, queue, rpc, write, acked, lost>>
HandleRead(n, k) ==
    /\ ReadCommitted(store[n][k]).found
    /\ answer' = [answer EXCEPT ![k] = ReadCommitted(store[n][k])]
    /\ UNCHANGED <<store, queue, rpc, write, acked, lost>>

-----------------------------------------------------------------------------
Send(n) == WorkerSend(n) /\ UNCHANGED <<store, write, acked, lost, answer>>

CallFails(c) == /\ RpcLost(c) \/ RpcAbandoned(c)
                /\ UNCHANGED <<store, write, acked, answer>>

(* Nothing is left to do. *)
Quiet == /\ rpc = {}
         /\ \A n \in Node : queue[n] = <<>>
         /\ \A r \in Req : write[r].pc = "returned"

Terminating == Quiet /\ UNCHANGED vars

Next == \/ \E r \in Req, n \in Node : WriteAssign(r, n)
        \/ \E r \in Handling : WriteStep(r)
        \/ \E n \in Node : Send(n)
        \/ \E c \in rpc : PropagateStep(c) \/ CallFails(c)
        \/ \E n \in Node, k \in Key : HandleRead(n, k)
        \/ Terminating

Spec == Init /\ [][Next]_vars

(* Handler threads and workers keep running; clients need not write. *)
Fairness == /\ \A r \in Req : WF_vars(WriteStep(r))
            /\ \A n \in Node : WF_vars(Send(n))
            /\ \A r \in Req, n \in Node :
                 WF_vars(\E c \in rpc : c.to = n /\ c.msg.req = r /\ PropagateStep(c))

FairSpec == Spec /\ Fairness

-----------------------------------------------------------------------------
(* Properties *)

(* How far n is from the head of k, clockwise in index order *)
Distance(k, n) == (n + N - HeadOf[k]) % N

(* Every key has a chain of its own round the ring, and in it no node is   *)
(* ahead of one before it, though every node's workers serve all keys.     *)
RingOrder ==
    \A k \in Key : \A i, j \in Node :
        Distance(k, i) < Distance(k, j) => store[i][k].seen >= store[j][k].seen

(* An acknowledged write, or a newer one of its key, is committed at the   *)
(* tail of the key and is on every node of the ring.                       *)
AckedEverywhere ==
    \A a \in acked :
        LET k == KeyOf[a.req]
        IN  /\ a.version = write[a.req].version
            /\ store[TailOf(k)][k].committed >= a.version
            /\ \A n \in Node : store[n][k].seen >= a.version

(* Though no server checks that it is the tail of the key it reads, a read *)
(* that succeeds sees every write acknowledged before it and never goes    *)
(* back: only the tail ever has a committed value of the key.              *)
ReadsSeeAcked ==
    [][\A k \in Key : answer'[k] # answer[k] =>
          /\ answer'[k].version >= answer[k].version
          /\ \A a \in acked : KeyOf[a.req] = k => answer'[k].version >= a.version
          /\ answer'[k] = ReadCommitted(store[TailOf(k)][k])]_vars

(* Unless a call was lost, once nothing is left to do every node has the   *)
(* last version of every key and its tail has committed it.                *)
QuietConverged ==
    Quiet /\ ~lost => \A k \in Key, n \in Node :
        LET head == store[HeadOf[k]][k]
        IN  /\ store[n][k].seen = head.next
            /\ store[n][k].seenValue = head.seenValue
            /\ store[TailOf(k)][k].committed = head.next

(* Unless a call is lost, an accepted write is acknowledged in the end:    *)
(* the nodes wait for one another all round the ring, a worker each, but   *)
(* never in a cycle, as no handler waits for the next node.                *)
AcceptedIsAcked ==
    \A r \in Req \ Silent :
        write[r].pc = "assigned" ~> lost \/ AckRequest(Message(r)) \in acked

(* The ring is the register whose committed value of a key is its tail's. *)
Abs == INSTANCE CommittedRegister WITH
          version   <- [r \in Req |-> write[r].version],
          committed <- [k \in Key |->
                          [version |-> store[TailOf(k)][k].committed,
                           value   |-> store[TailOf(k)][k].committedValue]]

Register == Abs!Spec
=============================================================================
