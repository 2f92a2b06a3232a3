-------------------------- MODULE CRAQReplication --------------------------
(***************************************************************************)
(* CRAQ mode (src/src/replication/craq/craq_replication.cpp): the chain of *)
(* CHAIN mode, whose nodes keep every version that is not committed yet    *)
(* and serve reads themselves.                                             *)
(*                                                                         *)
(* The tail commits a version, acknowledges it to the client and sends an  *)
(* Ack up the chain; a node that gets it makes the version its clean one.  *)
(* A read of a node with newer versions than its clean one asks the tail   *)
(* which version is committed and returns its own copy of that version.    *)
(*                                                                         *)
(* One worker thread per node sends the Ack calls to the predecessor from  *)
(* a queue: a dispatcher with one worker.                                  *)
(***************************************************************************)
EXTENDS LinearChain

CONSTANT Reader      \* the client reads; each is one Read call

ASSUME ReaderAssumption == Reader = {} \/ Key # {}

VARIABLES ackQueue,  \* pred_ack_queue_ of each node
          ackRpc,    \* the Ack calls between nodes in flight
          read       \* how far handle_read of each read has come

ackVars == <<ackQueue, ackRpc>>
vars == <<store, queue, rpc, lost, write, acked, ackQueue, ackRpc, read>>

AckWorker == INSTANCE PropagateDispatcher WITH
                queue <- ackQueue, rpc <- ackRpc, Workers <- 1

Answer == [found: BOOLEAN, value: Req \cup {NoReq}, version: Nat]

(* clean is local_clean, at the end what is returned; tail is the version  *)
(* the tail reported; floor, for the properties, is the version the tail   *)
(* had committed when the read began.                                      *)
IdleRead == [pc |-> "idle", node |-> HeadNode, key |-> CHOOSE k \in Key : TRUE,
             clean |-> NotFound, tail |-> 0, floor |-> 0]

TypeOK ==
    /\ ChainTypeOK
    /\ AckWorker!DispatcherTypeOK
    /\ read \in [Reader -> [pc: {"idle", "clean", "dirty", "queried", "done",
                                 "notFound", "queryFailed", "notMaterialized"},
                            node: Node, key: Key, clean: Answer,
                            tail: Nat, floor: Nat]]

Init == /\ ChainInit
        /\ AckWorker!DispatcherInit
        /\ read = [i \in Reader |-> IdleRead]

-----------------------------------------------------------------------------
(* handle_write: as in CHAIN mode, with the versions kept *)

WriteRejected(r, n) ==
    /\ write[r].pc = "idle"
    /\ ~IsHead(n)
    /\ WriteAt(r, "rejected")
    /\ UNCHANGED <<store, queue, rpc, acked, lost, ackVars, read>>

WriteAssign(r, n) ==
    /\ write[r].pc = "idle"
    /\ IsHead(n)
    /\ LET s == AssignNextVersion(store[n][KeyOf[r]])
       IN  /\ UpdateKey(n, KeyOf[r], s)
           /\ write' = [write EXCEPT ![r] = [pc |-> "assigned", version |-> s.next]]
    /\ UNCHANGED <<queue, rpc, acked, lost, ackVars, read>>

WriteRecord(r) ==
    /\ write[r].pc = "assigned"
    /\ UpdateKey(HeadNode, KeyOf[r],
                 RecordLocalWrite(store[HeadNode][KeyOf[r]], r, write[r].version))
    /\ WriteAt(r, "recorded")
    /\ UNCHANGED <<queue, rpc, acked, lost, ackVars, read>>

WriteForward(r) ==
    /\ write[r].pc = "recorded"
    /\ ~IsTail(HeadNode)
    /\ Enqueue(HeadNode, Successor(HeadNode), Message(r))
    /\ WriteAt(r, "returned")
    /\ UNCHANGED <<store, rpc, acked, lost, ackVars, read>>

WriteCommit(r) ==
    /\ write[r].pc = "recorded"
    /\ IsTail(HeadNode)
    /\ UpdateKey(HeadNode, KeyOf[r],
                 MarkVersionClean(store[HeadNode][KeyOf[r]], write[r].version))
    /\ WriteAt(r, "committed")
    /\ UNCHANGED <<queue, rpc, acked, lost, ackVars, read>>

WriteAck(r) ==
    /\ write[r].pc = "committed"
    /\ SendClientAck(Message(r))
    /\ WriteAt(r, "returned")
    /\ UNCHANGED <<store, queue, rpc, ackVars, read>>

WriteStep(r) == WriteRecord(r) \/ WriteForward(r) \/ WriteCommit(r) \/ WriteAck(r)

(* The requests whose handle_write is running *)
Handling == {r \in Req : write[r].pc \in {"assigned", "recorded", "committed"}}

-----------------------------------------------------------------------------
(* handle_propagate, for the call c *)

PropagateRecord(c) ==
    /\ c.pc = "sent"
    /\ LET k == KeyOf[c.msg.req]
       IN  UpdateKey(c.to, k, RecordLocalWrite(store[c.to][k], c.msg.req, c.msg.version))
    /\ Advance(c, "recorded")
    /\ UNCHANGED <<queue, write, acked, lost, ackVars, read>>

PropagateForward(c) ==
    /\ c.pc = "recorded"
    /\ ~IsTail(c.to)
    /\ Enqueue(c.to, Successor(c.to), c.msg)
    /\ Return(c)
    /\ UNCHANGED <<store, write, acked, lost, ackVars, read>>

PropagateCommit(c) ==
    /\ c.pc = "recorded"
    /\ IsTail(c.to)
    /\ LET k == KeyOf[c.msg.req]
       IN  UpdateKey(c.to, k, MarkVersionClean(store[c.to][k], c.msg.version))
    /\ Advance(c, "committed")
    /\ UNCHANGED <<queue, write, acked, lost, ackVars, read>>

PropagateAck(c) ==
    /\ c.pc = "committed"
    /\ SendClientAck(c.msg)
    /\ Advance(c, "acked")
    /\ UNCHANGED <<store, queue, write, ackVars, read>>

(* enqueue_predecessor_ack *)
EnqueueAck(n, m) == AckWorker!Enqueue(n, Predecessor(n), m) /\ UNCHANGED ackRpc

PropagateAckUpstream(c) ==
    /\ c.pc = "acked"
    /\ EnqueueAck(c.to, c.msg)
    /\ Return(c)
    /\ UNCHANGED <<store, queue, write, acked, lost, read>>

PropagateStep(c) ==
    \/ PropagateRecord(c) \/ PropagateForward(c) \/ PropagateCommit(c)
    \/ PropagateAck(c) \/ PropagateAckUpstream(c)

-----------------------------------------------------------------------------
(* handle_ack, for the Ack call a *)

AckMarkClean(a) ==
    /\ a.pc = "sent"
    /\ LET k == KeyOf[a.msg.req]
       IN  UpdateKey(a.to, k, MarkVersionClean(store[a.to][k], a.msg.version))
    /\ AckWorker!Advance(a, "committed")
    /\ UNCHANGED <<queue, rpc, write, acked, lost, ackQueue, read>>

AckForward(a) ==
    /\ a.pc = "committed"
    /\ IF IsHead(a.to) THEN UNCHANGED ackQueue
       ELSE AckWorker!Enqueue(a.to, Predecessor(a.to), a.msg)
    /\ AckWorker!Return(a)
    /\ UNCHANGED <<store, queue, rpc, write, acked, lost, read>>

AckStep(a) == AckMarkClean(a) \/ AckForward(a)

-----------------------------------------------------------------------------
(* handle_read and handle_version_query, for the read i *)

UnchangedByRead == UNCHANGED <<store, queue, rpc, write, acked, lost, ackVars>>

ReadAt(i, pc) == read' = [read EXCEPT ![i].pc = pc]

(* local_clean = read_clean(key); the tail answers with it at once. *)
ReadLocalClean(i, n, k) ==
    /\ read[i].pc = "idle"
    /\ LET clean == ReadClean(store[n][k])
       IN  read' = [read EXCEPT ![i] =
                      [pc |-> IF ~IsTail(n) THEN "clean"
                              ELSE IF clean.found THEN "done" ELSE "notFound",
                       node |-> n, key |-> k, clean |-> clean, tail |-> 0,
                       floor |-> store[TailNode][k].committed]]
    /\ UnchangedByRead

(* local_latest = read_latest_seen(key): without a newer version the clean *)
(* one is returned.                                                        *)
ReadCleanAnyway(i) ==
    /\ read[i].pc = "clean"
    /\ ReadAt(i, IF read[i].clean.found THEN "done" ELSE "notFound")
    /\ UnchangedByRead
ReadLatest(i) ==
    /\ read[i].pc = "clean"
    /\ LET clean  == read[i].clean
           latest == ReadLatestSeen(store[read[i].node][read[i].key])
           dirty  == latest.found /\ (~clean.found \/ latest.version > clean.version)
       IN  ReadAt(i, IF dirty THEN "dirty"
                     ELSE IF clean.found THEN "done" ELSE "notFound")
    /\ UnchangedByRead

(* handle_version_query: the query reaches the tail, directly or from      *)
(* successor to successor, which answers with its clean version.           *)
QueryAnswered(i, version) ==
    /\ read[i].pc = "dirty"
    /\ read' = [read EXCEPT ![i].tail = version,
                            ![i].pc = IF version = 0 THEN "notFound" ELSE "queried"]
    /\ UnchangedByRead
QueryLatestInstead(i) ==
    QueryAnswered(i, ReadLatestSeen(store[TailNode][read[i].key]).version)
QueryTail(i) ==
    QueryAnswered(i, ReadClean(store[TailNode][read[i].key]).version)

QueryFails(i) ==
    /\ read[i].pc = "dirty"
    /\ ReadAt(i, "queryFailed")
    /\ UnchangedByRead

(* read_value_at_version, unless the tail's version is local_clean's *)
ReadMaterialize(i) ==
    /\ read[i].pc = "queried"
    /\ LET clean == read[i].clean
           local == IF clean.found /\ clean.version = read[i].tail THEN clean
                    ELSE ReadValueAtVersion(store[read[i].node][read[i].key],
                                            read[i].tail)
       IN  IF local.found
           THEN read' = [read EXCEPT ![i].pc = "done", ![i].clean = local]
           ELSE ReadAt(i, "notMaterialized")
    /\ UnchangedByRead

ReadStep(i) == ReadLatest(i) \/ QueryTail(i) \/ ReadMaterialize(i)

-----------------------------------------------------------------------------
Send(n) == WorkerSend(n) /\ UNCHANGED <<store, write, acked, lost, ackVars, read>>

(* predecessor_ack_worker_loop: the front Ack is sent to the predecessor *)
SendAck(n) == /\ AckWorker!WorkerSend(n)
              /\ UNCHANGED <<store, queue, rpc, write, acked, lost, read>>

CallFails(c) == /\ RpcLost(c) \/ RpcAbandoned(c)
                /\ UNCHANGED <<store, write, acked, ackVars, read>>

AckCallFails(a) == /\ AckWorker!RpcLost(a) \/ AckWorker!RpcAbandoned(a)
                   /\ UNCHANGED <<store, queue, rpc, write, acked, read>>

(* Nothing is left to do for the writes, nor for anyone. *)
QuietWrites == /\ rpc = {} /\ ackRpc = {}
               /\ \A n \in Node : queue[n] = <<>> /\ ackQueue[n] = <<>>
               /\ \A r \in Req : write[r].pc \in {"rejected", "returned"}
Quiet == /\ QuietWrites
         /\ \A i \in Reader : read[i].pc \notin {"clean", "dirty", "queried"}

Terminating == Quiet /\ UNCHANGED vars

Next == \/ \E r \in Req, n \in Node : WriteRejected(r, n) \/ WriteAssign(r, n)
        \/ \E r \in Handling : WriteStep(r)
        \/ \E n \in Node : Send(n) \/ SendAck(n)
        \/ \E c \in rpc : PropagateStep(c) \/ CallFails(c)
        \/ \E a \in ackRpc : AckStep(a) \/ AckCallFails(a)
        \/ \E i \in Reader, n \in Node, k \in Key : ReadLocalClean(i, n, k)
        \/ \E i \in Reader : ReadStep(i) \/ QueryFails(i)
        \/ Terminating

Spec == Init /\ [][Next]_vars

(* Handler threads and workers keep running; clients need not call. *)
Fairness ==
    /\ \A r \in Req : WF_vars(WriteStep(r))
    /\ \A n \in Node : WF_vars(Send(n)) /\ WF_vars(SendAck(n))
    /\ \A r \in Req, n \in Node :
         /\ WF_vars(\E c \in rpc : c.to = n /\ c.msg.req = r /\ PropagateStep(c))
         /\ WF_vars(\E a \in ackRpc : a.to = n /\ a.msg.req = r /\ AckStep(a))

FairSpec == Spec /\ Fairness

-----------------------------------------------------------------------------
(* Properties *)

(* The clean version of a node is committed at every node after it: Acks   *)
(* travel up the chain in the mirror image of PropagationOrder, although   *)
(* Acks of different versions overtake one another too.                    *)
CleanOrder ==
    \A k \in Key : \A i, j \in Node :
        i < j => store[i][k].committed <= store[j][k].committed

(* A read returns a committed version and its value, whichever node serves *)
(* it and whatever changed between its steps ("reads from any node with    *)
(* version consistency", README.md:5).                                     *)
ReadsCommitted ==
    \A i \in Reader : read[i].pc = "done" =>
        LET answer == read[i].clean
        IN  /\ answer.found
            /\ answer.version <= store[TailNode][read[i].key].committed
            /\ HoldsWrite(read[i].key, answer.value, answer.version)

(* A read is as new as what the tail had committed when it began, so reads *)
(* of different nodes one after the other never go back in time.           *)
ReadsFresh ==
    \A i \in Reader : read[i].pc = "done" => read[i].clean.version >= read[i].floor

(* A read may find nothing only if nothing was committed when it began, and *)
(* fails to materialize the version the tail reported only because a newer *)
(* one has become clean here in between.                                   *)
ReadsFailForCause ==
    \A i \in Reader :
        /\ read[i].pc = "notFound" => read[i].floor = 0
        /\ read[i].pc = "notMaterialized" =>
              store[read[i].node][read[i].key].committed > read[i].tail

(* A node keeps every version it recorded until a newer one is clean, which *)
(* is what lets it serve the version the tail reports.                     *)
CommittedIsReadable ==
    \A n \in Node, k \in Key :
        LET tail == store[TailNode][k]
        IN  tail.committed > store[n][k].committed =>
               ReadValueAtVersion(store[n][k], tail.committed)
                  = Found(tail.committedValue, tail.committed)

(* Unless a call was lost, once the writes are done every replica has the  *)
(* last version of every key as its clean one and keeps nothing pending:   *)
(* neither a version left dirty nor one that would be kept for ever.       *)
QuietClean ==
    QuietWrites /\ ~lost => \A k \in Key, n \in Node :
        /\ store[n][k].committed = store[HeadNode][k].next
        /\ store[n][k].committedValue = store[TailNode][k].committedValue
        /\ store[n][k].pending = {}

(* Unless a call is lost, every accepted write is committed at the head    *)
(* in the end ("commit happens later when ACK returns").                   *)
AcceptedIsClean ==
    \A r \in Req :
        write[r].pc = "assigned" ~>
            lost \/ store[HeadNode][KeyOf[r]].committed >= write[r].version
=============================================================================
