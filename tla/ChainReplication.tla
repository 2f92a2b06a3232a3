-------------------------- MODULE ChainReplication --------------------------
(***************************************************************************)
(* CHAIN mode (src/src/replication/chain/chain_replication.cpp): a chain   *)
(* 0 .. N-1 whose head takes every write and whose tail serves every read. *)
(*                                                                         *)
(* A write is assigned a version, recorded at the head and answered at     *)
(* once; it then travels down the chain in asynchronous PROPAGATE calls    *)
(* and commits at the tail, which acknowledges it to the client.           *)
(*                                                                         *)
(* The server is multi-threaded and state_mtx_ is released between two     *)
(* calls of the support class, so a handler is a sequence of atomic steps  *)
(* and any number of handlers interleave.                                  *)
(***************************************************************************)
EXTENDS LinearChain

VARIABLE answer     \* the last answer to a read of each key

vars == <<store, queue, rpc, lost, write, acked, answer>>

TypeOK ==
    /\ ChainTypeOK
    /\ answer \in [Key -> [found: BOOLEAN, value: Req \cup {NoReq}, version: Nat]]

Init == ChainInit /\ answer = [k \in Key |-> NotFound]

-----------------------------------------------------------------------------
(* handle_write *)

(* The request reached a node other than the head: an error is returned. *)
WriteRejected(r, n) ==
    /\ write[r].pc = "idle"
    /\ ~IsHead(n)
    /\ WriteAt(r, "rejected")
    /\ UNCHANGED <<store, queue, rpc, acked, lost, answer>>

WriteAssign(r, n) ==
    /\ write[r].pc = "idle"
    /\ IsHead(n)
    /\ LET s == AssignNextVersion(store[n][KeyOf[r]])
       IN  /\ UpdateKey(n, KeyOf[r], s)
           /\ write' = [write EXCEPT ![r] = [pc |-> "assigned", version |-> s.next]]
    /\ UNCHANGED <<queue, rpc, acked, lost, answer>>

WriteRecord(r) ==
    /\ write[r].pc = "assigned"
    /\ UpdateKey(HeadNode, KeyOf[r],
                 RecordLocalWriteIfNewer(store[HeadNode][KeyOf[r]], r, write[r].version))
    /\ WriteAt(r, "recorded")
    /\ UNCHANGED <<queue, rpc, acked, lost, answer>>

WriteForward(r) ==
    /\ write[r].pc = "recorded"
    /\ ~IsTail(HeadNode)
    /\ Enqueue(HeadNode, Successor(HeadNode), Message(r))
    /\ WriteAt(r, "returned")
    /\ UNCHANGED <<store, rpc, acked, lost, answer>>

(* A chain of one node commits and acknowledges in the handler. *)
WriteCommit(r) ==
    /\ write[r].pc = "recorded"
    /\ IsTail(HeadNode)
    /\ UpdateKey(HeadNode, KeyOf[r],
                 MarkVersionCommittedIfNewer(store[HeadNode][KeyOf[r]], r, write[r].version))
    /\ WriteAt(r, "committed")
    /\ UNCHANGED <<queue, rpc, acked, lost, answer>>

WriteAck(r) ==
    /\ write[r].pc = "committed"
    /\ SendClientAck(Message(r))
    /\ WriteAt(r, "returned")
    /\ UNCHANGED <<store, queue, rpc, answer>>

WriteStep(r) == WriteRecord(r) \/ WriteForward(r) \/ WriteCommit(r) \/ WriteAck(r)

(* The requests whose handle_write is running *)
Handling == {r \in Req : write[r].pc \in {"assigned", "recorded", "committed"}}

-----------------------------------------------------------------------------
(* handle_propagate, for the call c *)

PropagateRecord(c) ==
    /\ c.pc = "sent"
    /\ LET k == KeyOf[c.msg.req]
       IN  UpdateKey(c.to, k,
                     RecordLocalWriteIfNewer(store[c.to][k], c.msg.req, c.msg.version))
    /\ Advance(c, "recorded")
    /\ UNCHANGED <<queue, write, acked, lost, answer>>

PropagateForward(c) ==
    /\ c.pc = "recorded"
    /\ ~IsTail(c.to)
    /\ Enqueue(c.to, Successor(c.to), c.msg)
    /\ Return(c)
    /\ UNCHANGED <<store, write, acked, lost, answer>>

PropagateCommit(c) ==
    /\ c.pc = "recorded"
    /\ IsTail(c.to)
    /\ LET k == KeyOf[c.msg.req]
       IN  UpdateKey(c.to, k,
                     MarkVersionCommittedIfNewer(store[c.to][k], c.msg.req, c.msg.version))
    /\ Advance(c, "committed")
    /\ UNCHANGED <<queue, write, acked, lost, answer>>

PropagateAck(c) ==
    /\ c.pc = "committed"
    /\ SendClientAck(c.msg)
    /\ Return(c)
    /\ UNCHANGED <<store, queue, write, answer>>

PropagateStep(c) ==
    PropagateRecord(c) \/ PropagateForward(c) \/ PropagateCommit(c) \/ PropagateAck(c)

-----------------------------------------------------------------------------
(* handle_read: only the tail answers, and only with a committed value *)
ReadLatestInstead(n, k) ==
    /\ IsTail(n)
    /\ store[n][k].seen # 0
    /\ answer' = [answer EXCEPT ![k] = ReadLatestSeen(store[n][k])]
    /\ UNCHANGED <<store, queue, rpc, write, acked, lost>>
HandleRead(n, k) ==
    /\ IsTail(n)
    /\ ReadCommitted(store[n][k]).found
    /\ answer' = [answer EXCEPT ![k] = ReadCommitted(store[n][k])]
    /\ UNCHANGED <<store, queue, rpc, write, acked, lost>>

-----------------------------------------------------------------------------
Send(n) == WorkerSend(n) /\ UNCHANGED <<store, write, acked, lost, answer>>

CallFails(c) == /\ RpcLost(c) \/ RpcAbandoned(c)
                /\ UNCHANGED <<store, write, acked, answer>>

(* Nothing is left to do. *)
Quiet == /\ rpc = {}
         /\ \A n \in Node : queue[n] = <<>>
         /\ \A r \in Req : write[r].pc \in {"rejected", "returned"}

Terminating == Quiet /\ UNCHANGED vars

Next == \/ \E r \in Req, n \in Node : WriteRejected(r, n) \/ WriteAssign(r, n)
        \/ \E r \in Handling : WriteStep(r)
        \/ \E n \in Node : Send(n)
        \/ \E c \in rpc : PropagateStep(c) \/ CallFails(c)
        \/ \E n \in Node, k \in Key : HandleRead(n, k)
        \/ Terminating

Spec == Init /\ [][Next]_vars

(* Handler threads and workers keep running; clients need not write. *)
Fairness == /\ \A r \in Req : WF_vars(WriteStep(r))
            /\ \A n \in Node : WF_vars(Send(n))
            /\ \A r \in Req, n \in Node :
                 WF_vars(\E c \in rpc : c.to = n /\ c.msg.req = r /\ PropagateStep(c))

FairSpec == Spec /\ Fairness

-----------------------------------------------------------------------------
(* Properties *)

(* A read sees every write acknowledged before it and never goes back to   *)
(* an older version: reads of a key are linearizable at the tail.          *)
ReadsSeeAcked ==
    [][\A k \in Key : answer'[k] # answer[k] =>
          /\ answer'[k].version >= answer[k].version
          /\ \A a \in acked : KeyOf[a.req] = k => answer'[k].version >= a.version
          /\ answer'[k].version <= store[TailNode][k].committed]_vars

(* Unless a call was lost, once no task, call or handler is left every     *)
(* replica holds the last version of every key and the tail has committed  *)
(* it, whatever overtook what.  (There is no retry of a lost call.)        *)
QuietConverged ==
    Quiet /\ ~lost => \A k \in Key, n \in Node :
        /\ store[n][k].seen = store[HeadNode][k].next
        /\ store[n][k].seenValue = store[HeadNode][k].seenValue
        /\ store[TailNode][k].committed = store[HeadNode][k].next

(* Unless a call is lost, a write the head accepted from a client that     *)
(* listens is acknowledged in the end, also when it is overtaken.          *)
AcceptedIsAcked ==
    \A r \in Req \ Silent :
        write[r].pc = "assigned" ~> lost \/ AckRequest(Message(r)) \in acked

-----------------------------------------------------------------------------
(* The inductive invariant *)

(* Whoever holds a message has recorded it, and the handlers have done     *)
(* what their program counter says.                                        *)
TaskRecorded(n, t) ==
    /\ ~IsTail(n) /\ t.successor = Successor(n)
    /\ Genuine(t.msg)
    /\ Recorded(n, t.msg)

CallRecorded(c) ==
    /\ ~IsTail(c.from) /\ c.to = Successor(c.from)
    /\ Genuine(c.msg)
    /\ Recorded(c.from, c.msg)
    /\ c.pc # "sent" => Recorded(c.to, c.msg)
    /\ c.pc = "committed" => IsTail(c.to) /\ Committed(c.msg)

WriteRecorded(r) ==
    /\ write[r].version = 0 <=> write[r].pc \in {"idle", "rejected"}
    /\ write[r].pc \in {"recorded", "committed", "returned"}
          => Recorded(HeadNode, Message(r))
    /\ write[r].pc = "committed" => IsTail(HeadNode) /\ Committed(Message(r))

HoldersRecorded ==
    /\ \A n \in Node : \A t \in Tasks(n) : TaskRecorded(n, t)
    /\ \A c \in rpc : CallRecorded(c)
    /\ \A r \in Req : WriteRecorded(r)

(* How far a message has come: recorded at the position n of the chain or, *)
(* at position N, committed by the tail.                                   *)
Reached(m, n) == IF n = N THEN Committed(m) ELSE Recorded(n, m)

(* Its handler, a task or a call is still to bring it to the position n. *)
TaskBefore(m, n) == \E p \in Node : p < n /\ \E t \in Tasks(p) : t.msg = m
CallBefore(m, n) == \E c \in rpc : /\ c.msg = m
                                  /\ \/ c.pc = "sent" /\ c.to <= n
                                     \/ c.pc = "recorded" /\ c.to < n
OnItsWay(r, n) == \/ write[r].pc \in {"assigned", "recorded"}
                  \/ TaskBefore(Message(r), n)
                  \/ CallBefore(Message(r), n)

(* Whatever overtakes it, a write is dropped only with a lost call. *)
Delivered ==
    ~lost => \A r \in Req, n \in 0 .. N :
                write[r].version # 0 => Reached(Message(r), n) \/ OnItsWay(r, n)

IInv == /\ TypeOK
        /\ HoldersRecorded
        /\ PropagationOrder
        /\ CommittedIsSeen
        /\ AckedCommitted
        /\ VersionsBelowNext
        /\ NextIsAssigned
        /\ VersionNamesOneWrite
        /\ UnseenIsEmpty
        /\ Delivered
=============================================================================
