------------------------ MODULE CRAQReplicationProofs ------------------------
(***************************************************************************)
(* Theorems about CRAQ mode, for every chain length, every set of keys,    *)
(* writes and reads, every pool of workers, and whether or not calls fail: *)
(* the clean versions are ordered along the chain, and a read of any node  *)
(* returns a committed version that is not older than the read.            *)
(*                                                                         *)
(* A node may answer for the tail because it keeps every version it has    *)
(* recorded until that version or a newer one is clean.  Kept says so of   *)
(* one version; the invariant says it of every version a message brings    *)
(* and of the one the tail has committed.                                  *)
(***************************************************************************)
EXTENDS CRAQReplication, ReplicaServerProofs

USE DEF ChainTypeOK, ServerTypeOK, ChainInit, ServerInit

(* The dispatcher lemmas, for the queue and the calls of the Acks *)
AckP == INSTANCE ReplicaServerProofs WITH
           queue <- ackQueue, rpc <- ackRpc, Workers <- 1

-----------------------------------------------------------------------------
(* The inductive invariant *)

(* Node n has seen version v of key k, and has it or a newer clean one. *)
Kept(n, k, v) ==
    /\ store[n][k].seen >= v
    /\ \/ store[n][k].committed >= v
       \/ \E p \in store[n][k].pending : p.version = v

(* The message has come as far as node n. *)
Passed(n, m) == \A i \in Node : i <= n => Kept(i, KeyOf[m.req], m.version)

CleanAt(n, m) == store[n][KeyOf[m.req]].committed >= m.version

TaskPassed(n, t) ==
    /\ ~IsTail(n) /\ t.successor = Successor(n)
    /\ Genuine(t.msg) /\ Passed(n, t.msg)

CallPassed(c) ==
    /\ ~IsTail(c.from) /\ c.to = Successor(c.from)
    /\ Genuine(c.msg) /\ Passed(c.from, c.msg)
    /\ c.pc # "sent" => Passed(c.to, c.msg)
    /\ c.pc \in {"committed", "acked"} => IsTail(c.to) /\ CleanAt(c.to, c.msg)

(* An Ack has come from the tail, through nodes that all have its version  *)
(* or a newer one clean.                                                   *)
AckTaskPassed(n, t) ==
    /\ t.successor = Predecessor(n)
    /\ Genuine(t.msg) /\ Passed(TailNode, t.msg)
    /\ CleanAt(n, t.msg)

AckCallPassed(a) ==
    /\ a.to = Predecessor(a.from)
    /\ Genuine(a.msg) /\ Passed(TailNode, a.msg)
    /\ CleanAt(a.from, a.msg)
    /\ a.pc # "sent" => CleanAt(a.to, a.msg)

WritePassed(r) ==
    /\ write[r].version = 0 <=> write[r].pc \in {"idle", "rejected"}
    /\ write[r].pc \in {"recorded", "committed", "returned"}
          => Passed(HeadNode, Message(r))
    /\ write[r].pc = "committed" => IsTail(HeadNode) /\ CleanAt(HeadNode, Message(r))

HoldersPassed ==
    /\ \A n \in Node : \A t \in Tasks(n) : TaskPassed(n, t)
    /\ \A c \in rpc : CallPassed(c)
    /\ \A n \in Node : \A t \in AckWorker!Tasks(n) : AckTaskPassed(n, t)
    /\ \A a \in ackRpc : AckCallPassed(a)
    /\ \A r \in Req : WritePassed(r)

(* What the tail has committed every node has kept. *)
TailKept ==
    \A n \in Node, k \in Key : Kept(n, k, store[TailNode][k].committed)

PendingIsGenuine ==
    \A n \in Node, k \in Key : \A p \in store[n][k].pending :
        p.version # 0 /\ HoldsWrite(k, p.value, p.version)

(* What handle_read knows at each of its steps *)
LocalClean(i) ==
    LET clean == read[i].clean
    IN  /\ clean.found <=> clean.version # 0
        /\ clean.version <= store[TailNode][read[i].key].committed
        /\ HoldsWrite(read[i].key, clean.value, clean.version)

ReadHonest(i) ==
    LET R == read[i]
        s == store[R.node][R.key]
    IN  /\ R.pc \in {"clean", "dirty", "queried", "done"} => LocalClean(i)
        /\ R.pc \in {"clean", "dirty"} =>
              s.seen >= R.floor /\ store[TailNode][R.key].committed >= R.floor
        /\ R.pc = "queried" =>
              /\ R.tail # 0 /\ R.tail >= R.floor
              /\ R.tail <= store[TailNode][R.key].committed
              /\ Kept(R.node, R.key, R.tail)
        /\ R.pc = "done" => R.clean.found /\ R.clean.version >= R.floor
        /\ R.pc = "notFound" => R.floor = 0
        /\ R.pc = "notMaterialized" => s.committed > R.tail

(* A key without a clean version has no clean value either. *)
UncommittedIsEmpty ==
    \A n \in Node, k \in Key :
        store[n][k].committed = 0 => store[n][k].committedValue = NoReq

(* The write of r is over at node n: its version or a newer one is clean   *)
(* there, and nothing is pending under its version.                        *)
Cleaned(n, r) ==
    /\ store[n][KeyOf[r]].committed >= write[r].version
    /\ \A p \in store[n][KeyOf[r]].pending : p.version # write[r].version

(* Its handler, a task or a call is still to bring r to the tail ...       *)
TaskOf(r) == \E p \in Node : \E t \in Tasks(p) : t.msg.req = r
CallOf(r) == \E c \in rpc : c.msg.req = r /\ c.pc \in {"sent", "recorded"}
BeforeTail(r) == write[r].pc \in {"assigned", "recorded"} \/ TaskOf(r) \/ CallOf(r)

(* ... or its Ack is still to come to node n, from the handler of the tail *)
(* or from a node after n.                                                 *)
TailCallOf(r) == \E c \in rpc : c.msg.req = r /\ c.pc \in {"committed", "acked"}
AckTaskAfter(r, n) ==
    \E p \in Node : n < p /\ \E t \in AckWorker!Tasks(p) : t.msg.req = r
AckCallTo(r, n) ==
    \E a \in ackRpc : /\ a.msg.req = r
                      /\ \/ a.pc = "sent" /\ n <= a.to
                         \/ a.pc = "committed" /\ n < a.to
AckComes(r, n) == \/ n # TailNode /\ TailCallOf(r)
                  \/ AckTaskAfter(r, n)
                  \/ AckCallTo(r, n)

(* Whatever overtakes it, an accepted write becomes clean at every node,   *)
(* unless a call is lost.                                                  *)
Delivered ==
    ~lost => \A r \in Req, n \in Node :
                write[r].version # 0 => Cleaned(n, r) \/ BeforeTail(r) \/ AckComes(r, n)

IInv == /\ TypeOK
        /\ HoldersPassed
        /\ CleanOrder
        /\ TailKept
        /\ AckedCommitted
        /\ VersionsBelowNext
        /\ NextIsAssigned
        /\ VersionNamesOneWrite
        /\ PendingIsGenuine
        /\ \A i \in Reader : ReadHonest(i)
        /\ UncommittedIsEmpty
        /\ Delivered


-----------------------------------------------------------------------------
(* The dispatcher of the Acks *)

AckTasks(n) == AckWorker!Tasks(n)

AckDispatcherOK == /\ ackQueue \in [Node -> Seq(PropagateTask)]
                   /\ ackRpc \subseteq Call
                   /\ lost \in BOOLEAN

(* The types and the steps of the two instances are those of the           *)
(* dispatcher itself.                                                      *)
LEMMA AckTypes ==
  /\ AckP!DispatcherTypeOK <=> AckDispatcherOK
  /\ AckWorker!DispatcherTypeOK <=> AckDispatcherOK
  /\ AckP!PropagateRequest = PropagateRequest
  /\ AckP!PropagateTask = PropagateTask
  /\ AckP!Call = Call
  BY DEF AckP!DispatcherTypeOK, AckWorker!DispatcherTypeOK, AckDispatcherOK,
         AckP!PropagateTask, AckP!PropagateRequest, AckP!Call,
         AckWorker!PropagateTask, AckWorker!PropagateRequest, AckWorker!Call,
         PropagateTask, PropagateRequest, Call

LEMMA AckEnqueueEffect ==
  ASSUME AckDispatcherOK, NEW n \in Node, NEW s,
         NEW m \in PropagateRequest, AckWorker!Enqueue(n, s, m)
  PROVE  /\ ackQueue' \in [Node -> Seq(PropagateTask)]
         /\ \A p \in Node : \A t \in AckTasks(p)' :
               \/ t \in AckTasks(p)
               \/ s \in Node /\ p = n /\ t = [successor |-> s, msg |-> m]
  <1>1. CASE s \in Node
    <2>1. AckP!Enqueue(n, s, m)
      BY DEF AckP!Enqueue, AckWorker!Enqueue
    <2>2. m \in AckP!PropagateRequest /\ AckP!DispatcherTypeOK
      BY AckTypes
    <2>3. /\ ackQueue' \in [Node -> Seq(AckP!PropagateTask)]
          /\ \A p \in Node : \A t \in AckP!Tasks(p)' :
               t \in AckP!Tasks(p) \/ (p = n /\ t = [successor |-> s, msg |-> m])
      BY <1>1, <2>1, <2>2, AckP!EnqueueEffect, KeyOfAssumption, NoReqAssumption,
         SilentAssumption
    <2> QED
      BY <1>1, <2>3, AckTypes DEF AckP!Tasks, AckWorker!Tasks, AckTasks
  <1>2. CASE s \notin Node
    <2>1. ackQueue' = ackQueue
      BY <1>2 DEF AckWorker!Enqueue
    <2> QED
      BY <2>1 DEF AckWorker!Tasks, AckTasks, AckDispatcherOK
  <1> QED
    BY <1>1, <1>2

LEMMA AckSendEffect ==
  ASSUME AckDispatcherOK, NEW n \in Node, AckWorker!WorkerSend(n)
  PROVE  /\ ackQueue' \in [Node -> Seq(PropagateTask)] /\ ackRpc' \subseteq Call
         /\ \A p \in Node : AckTasks(p)' \subseteq AckTasks(p)
         /\ \E t \in AckTasks(n) :
               ackRpc' = ackRpc \cup {[from |-> n, to |-> t.successor, msg |-> t.msg,
                                       pc |-> "sent", held |-> TRUE]}
  <1>1. AckP!TakesFront(n)
    BY DEF AckP!TakesFront, AckWorker!WorkerSend
  <1>2. AckP!DispatcherTypeOK
    BY AckTypes
  <1>3. /\ ackQueue' \in [Node -> Seq(AckP!PropagateTask)] /\ ackRpc' \subseteq AckP!Call
        /\ \A p \in Node : AckP!Tasks(p)' \subseteq AckP!Tasks(p)
        /\ \E t \in AckP!Tasks(n) :
               ackRpc' = ackRpc \cup {[from |-> n, to |-> t.successor, msg |-> t.msg,
                                       pc |-> "sent", held |-> TRUE]}
    BY <1>1, <1>2, AckP!TakesFrontEffect, KeyOfAssumption, NoReqAssumption,
       SilentAssumption
  <1> QED
    BY <1>3, AckTypes DEF AckP!Tasks, AckWorker!Tasks, AckTasks

LEMMA AckCallFailsEffect ==
  ASSUME AckDispatcherOK, NEW a \in ackRpc,
         AckWorker!RpcLost(a) \/ AckWorker!RpcAbandoned(a)
  PROVE  /\ AckDispatcherOK'
         /\ ackQueue' = ackQueue
         /\ \A d \in ackRpc' : \E b \in ackRpc :
               /\ d.from = b.from /\ d.to = b.to /\ d.msg = b.msg /\ d.pc = b.pc
  <1>1. AckP!RpcLost(a) \/ AckP!RpcAbandoned(a)
    BY DEF AckP!RpcLost, AckP!RpcAbandoned, AckWorker!RpcLost, AckWorker!RpcAbandoned
  <1>2. AckP!DispatcherTypeOK
    BY AckTypes
  <1>3. /\ AckP!DispatcherTypeOK'
        /\ ackQueue' = ackQueue
        /\ \A d \in ackRpc' : \E b \in ackRpc :
               /\ d.from = b.from /\ d.to = b.to /\ d.msg = b.msg /\ d.pc = b.pc
    BY <1>1, <1>2, AckP!CallFailsEffect, KeyOfAssumption, NoReqAssumption,
       SilentAssumption
  <1> QED
    BY <1>3, AckTypes, PTL

LEMMA AckAdvanceEffect ==
  ASSUME AckDispatcherOK, NEW a \in ackRpc,
         NEW pc \in {"sent", "recorded", "committed", "acked"}, AckWorker!Advance(a, pc)
  PROVE  /\ ackRpc' \subseteq Call
         /\ \A d \in ackRpc' : \/ d \in ackRpc
                               \/ /\ d.from = a.from /\ d.to = a.to
                                  /\ d.msg = a.msg /\ d.pc = pc
  <1>1. AckP!Advance(a, pc)
    BY DEF AckP!Advance, AckWorker!Advance
  <1>2. AckP!DispatcherTypeOK
    BY AckTypes
  <1>3. /\ ackRpc' \subseteq AckP!Call
        /\ \A d \in ackRpc' : \/ d \in ackRpc
                               \/ /\ d.from = a.from /\ d.to = a.to
                                  /\ d.msg = a.msg /\ d.pc = pc
    BY <1>1, <1>2, AckP!AdvanceEffect, KeyOfAssumption, NoReqAssumption,
       SilentAssumption
  <1> QED
    BY <1>3, AckTypes

(* Nothing is forgotten: what the lemmas of the dispatcher say of its      *)
(* tasks and calls, for those of the Acks                                  *)

LEMMA AckEnqueueKeeps ==
  ASSUME AckDispatcherOK, NEW n \in Node, NEW s \in Node,
         NEW m \in PropagateRequest, AckWorker!Enqueue(n, s, m)
  PROVE  /\ \A p \in Node : AckTasks(p) \subseteq AckTasks(p)'
         /\ [successor |-> s, msg |-> m] \in AckTasks(n)'
  <1>1. AckP!Enqueue(n, s, m)
    BY DEF AckP!Enqueue, AckWorker!Enqueue
  <1>2. m \in AckP!PropagateRequest /\ AckP!DispatcherTypeOK
    BY AckTypes
  <1>3. /\ \A p \in Node : AckP!Tasks(p) \subseteq AckP!Tasks(p)'
        /\ [successor |-> s, msg |-> m] \in AckP!Tasks(n)'
    BY <1>1, <1>2, AckP!EnqueueKeeps, KeyOfAssumption, NoReqAssumption,
       SilentAssumption
  <1> QED
    BY <1>3 DEF AckP!Tasks, AckWorker!Tasks, AckTasks

LEMMA AckSendKeeps ==
  ASSUME AckDispatcherOK, NEW n \in Node, AckWorker!WorkerSend(n)
  PROVE  /\ ackRpc \subseteq ackRpc'
         /\ \A p \in Node : \A t \in AckTasks(p) :
               \/ t \in AckTasks(p)'
               \/ [from |-> p, to |-> t.successor, msg |-> t.msg,
                   pc |-> "sent", held |-> TRUE] \in ackRpc'
  <1>1. AckP!TakesFront(n)
    BY DEF AckP!TakesFront, AckWorker!WorkerSend
  <1>2. AckP!DispatcherTypeOK
    BY AckTypes
  <1>3. /\ ackRpc \subseteq ackRpc'
        /\ \A p \in Node : \A t \in AckP!Tasks(p) :
              \/ t \in AckP!Tasks(p)'
              \/ [from |-> p, to |-> t.successor, msg |-> t.msg,
                  pc |-> "sent", held |-> TRUE] \in ackRpc'
    BY <1>1, <1>2, AckP!TakesFrontKeeps, KeyOfAssumption, NoReqAssumption,
       SilentAssumption
  <1> QED
    BY <1>3 DEF AckP!Tasks, AckWorker!Tasks, AckTasks

LEMMA AckAdvanceKeeps ==
  ASSUME AckDispatcherOK, NEW a \in ackRpc,
         NEW pc \in {"sent", "recorded", "committed", "acked"}, AckWorker!Advance(a, pc)
  PROVE  /\ \A d \in ackRpc : d # a => d \in ackRpc'
         /\ \E e \in ackRpc' : /\ e.from = a.from /\ e.to = a.to
                              /\ e.msg = a.msg /\ e.pc = pc
  <1>1. AckP!Advance(a, pc)
    BY DEF AckP!Advance, AckWorker!Advance
  <1>2. AckP!DispatcherTypeOK
    BY AckTypes
  <1> QED
    BY <1>1, <1>2, AckP!AdvanceKeeps, KeyOfAssumption, NoReqAssumption,
       SilentAssumption

LEMMA AckAbandonedKeeps ==
  ASSUME AckDispatcherOK, NEW a \in ackRpc, AckWorker!RpcAbandoned(a)
  PROVE  \A d \in ackRpc : \E e \in ackRpc' :
            e.from = d.from /\ e.to = d.to /\ e.msg = d.msg /\ e.pc = d.pc
  <1>1. AckP!RpcAbandoned(a)
    BY DEF AckP!RpcAbandoned, AckWorker!RpcAbandoned
  <1>2. AckP!DispatcherTypeOK
    BY AckTypes
  <1> QED
    BY <1>1, <1>2, AckP!AbandonedKeeps, KeyOfAssumption, NoReqAssumption,
       SilentAssumption

-----------------------------------------------------------------------------
(* Type correctness *)

QueueOK    == queue \in [Node -> Seq(PropagateTask)]
RpcOK      == rpc \subseteq Call
AckQueueOK == ackQueue \in [Node -> Seq(PropagateTask)]
AckRpcOK   == ackRpc \subseteq Call
LostOK     == lost \in BOOLEAN
AckedOK    == acked \subseteq [req: Req, version: Nat]
WriteOK    == write \in [Req -> [pc: {"idle", "rejected", "assigned", "recorded",
                                      "committed", "returned"},
                                 version: Nat]]
ReadRecord == [pc: {"idle", "clean", "dirty", "queried", "done",
                    "notFound", "queryFailed", "notMaterialized"},
               node: Node, key: Key, clean: Answer, tail: Nat, floor: Nat]
ReadOK     == read \in [Reader -> ReadRecord]

Parts == /\ StoreOK /\ QueueOK /\ RpcOK /\ AckQueueOK /\ AckRpcOK /\ LostOK
         /\ AckedOK /\ WriteOK /\ ReadOK

LEMMA TypeParts == TypeOK <=> Parts
  <1>1. DispatcherTypeOK <=> QueueOK /\ RpcOK /\ LostOK
    BY DEF DispatcherTypeOK, QueueOK, RpcOK, LostOK
  <1>2. AckDispatcherOK <=> AckQueueOK /\ AckRpcOK /\ LostOK
    BY DEF AckDispatcherOK, AckQueueOK, AckRpcOK, LostOK
  <1> QED
    BY <1>1, <1>2, AckTypes
    DEF TypeOK, Parts, StoreOK, AckedOK, WriteOK, ReadOK, ReadRecord

LEMMA PartsKept ==
  ASSUME Parts
  PROVE  /\ UNCHANGED store => StoreOK'
         /\ UNCHANGED queue => QueueOK'
         /\ UNCHANGED rpc => RpcOK'
         /\ UNCHANGED ackQueue => AckQueueOK'
         /\ UNCHANGED ackRpc => AckRpcOK'
         /\ UNCHANGED lost => LostOK'
         /\ UNCHANGED acked => AckedOK'
         /\ UNCHANGED write => WriteOK'
         /\ UNCHANGED read => ReadOK'
  BY DEF Parts, StoreOK, QueueOK, RpcOK, AckQueueOK, AckRpcOK, LostOK, AckedOK,
         WriteOK, ReadOK

(* What the definitions of the components of the state give *)
LEMMA Types ==
  ASSUME Parts
  PROVE  /\ DispatcherTypeOK /\ AckDispatcherOK
         /\ \A r \in Req : KeyOf[r] \in Key /\ write[r].version \in Nat
         /\ \A n \in Node, k \in Key : store[n][k] \in KeyState
         /\ \A c \in rpc : /\ c \in Call /\ c.from \in Node /\ c.to \in Node
                           /\ c.msg \in PropagateRequest
                           /\ c.msg.req \in Req /\ c.msg.version \in Nat
         /\ \A a \in ackRpc : /\ a \in Call /\ a.from \in Node /\ a.to \in Node
                              /\ a.msg \in PropagateRequest
                              /\ a.msg.req \in Req /\ a.msg.version \in Nat
         /\ \A i \in Reader : read[i] \in ReadRecord
  <1>1. DispatcherTypeOK /\ AckDispatcherOK
    BY DEF Parts, DispatcherTypeOK, AckDispatcherOK, QueueOK, RpcOK, AckQueueOK,
           AckRpcOK, LostOK
  <1>2. \A r \in Req : KeyOf[r] \in Key /\ write[r].version \in Nat
    BY KeyOfAssumption DEF Parts, WriteOK
  <1>3. \A n \in Node, k \in Key : store[n][k] \in KeyState
    BY DEF Parts, StoreOK
  <1>4. \A c \in Call : /\ c.from \in Node /\ c.to \in Node
                        /\ c.msg \in PropagateRequest
                        /\ c.msg.req \in Req /\ c.msg.version \in Nat
    BY DEF Call, PropagateRequest
  <1>5. \A i \in Reader : read[i] \in ReadRecord
    BY DEF Parts, ReadOK
  <1> QED
    BY <1>1, <1>2, <1>3, <1>4, <1>5 DEF Parts, RpcOK, AckRpcOK

(* The nodes of the chain *)
LEMMA Positions ==
  /\ Node \subseteq Nat
  /\ HeadNode \in Node /\ TailNode \in Node
  /\ \A n \in Node : HeadNode <= n /\ n <= TailNode
  /\ \A n \in Node : /\ IsTail(n) <=> n = TailNode
                     /\ IsHead(n) <=> n = HeadNode
                     /\ ~IsTail(n) => Successor(n) \in Node
                     /\ ~IsHead(n) => Predecessor(n) \in Node
                     /\ Successor(n) = n + 1 /\ Predecessor(n) = n - 1
  BY ChainAssumption DEF HeadNode, TailNode, IsTail, IsHead, Successor, Predecessor

LEMMA InitTypeOK == Init => TypeOK
  <1> SUFFICES ASSUME Init PROVE Parts
    BY TypeParts
  <1>1. StoreOK /\ AckedOK /\ LostOK
    BY FreshKeyType DEF Init, StoreOK, AckedOK, LostOK, DispatcherInit
  <1>2. QueueOK /\ RpcOK
    BY DEF Init, DispatcherInit, QueueOK, RpcOK
  <1>3. AckQueueOK /\ AckRpcOK
    BY DEF Init, AckWorker!DispatcherInit, AckQueueOK, AckRpcOK
  <1>4. WriteOK
    BY DEF Init, WriteOK
  <1>5. ReadOK
    <2>1. ASSUME NEW i \in Reader PROVE IdleRead \in ReadRecord
      <3>1. (CHOOSE k \in Key : TRUE) \in Key
        BY <2>1, ReaderAssumption
      <3>2. NotFound \in Answer
        BY DEF NotFound, Answer
      <3> QED
        BY <3>1, <3>2, Positions DEF IdleRead, ReadRecord
    <2> QED
      BY <2>1 DEF Init, ReadOK
  <1> QED
    BY <1>1, <1>2, <1>3, <1>4, <1>5 DEF Parts

(* A message a handler sends is well formed. *)
LEMMA MessageType ==
  ASSUME Parts, NEW r \in Req
  PROVE  Message(r) \in PropagateRequest
  BY Positions DEF Parts, WriteOK, Message, PropagateRequest

LEMMA WriteAtType ==
  ASSUME Parts, NEW r \in Req,
         NEW pc \in {"rejected", "recorded", "committed", "returned"}, WriteAt(r, pc)
  PROVE  WriteOK'
  BY DEF Parts, WriteOK, WriteAt

LEMMA SendClientAckType ==
  ASSUME Parts, NEW m \in PropagateRequest, SendClientAck(m)
  PROVE  AckedOK' /\ LostOK' /\ acked' \subseteq acked \cup {AckRequest(m)}
  <1>1. AckedOK' /\ acked' \subseteq acked \cup {AckRequest(m)}
    BY DEF Parts, AckedOK, SendClientAck, AckRequest, PropagateRequest
  <1>2. lost' = lost \/ lost' = TRUE
    BY DEF SendClientAck
  <1> QED
    BY <1>1, <1>2 DEF Parts, LostOK

(* The types of the key states the steps write *)
LEMMA RecordType ==
  ASSUME Parts, NEW n \in Node, NEW r \in Req, NEW v \in Nat,
         UpdateKey(n, KeyOf[r], RecordLocalWrite(store[n][KeyOf[r]], r, v))
  PROVE  StoreOK'
  <1>1. RecordLocalWrite(store[n][KeyOf[r]], r, v) \in KeyState
    BY Types, RecordLocalWriteEffect
  <1> QED
    BY <1>1, Types, UpdateKeyEffect DEF Parts

LEMMA CleanType ==
  ASSUME Parts, NEW n \in Node, NEW r \in Req, NEW v \in Nat,
         UpdateKey(n, KeyOf[r], MarkVersionClean(store[n][KeyOf[r]], v))
  PROVE  StoreOK'
  <1>1. MarkVersionClean(store[n][KeyOf[r]], v) \in KeyState
    BY Types, MarkVersionCleanEffect
  <1> QED
    BY <1>1, Types, UpdateKeyEffect DEF Parts

LEMMA WritesType ==
  ASSUME Parts, NEW r \in Req,
         WriteStep(r) \/ \E n \in Node : WriteRejected(r, n) \/ WriteAssign(r, n)
  PROVE  Parts'
  <1>1. ASSUME NEW n \in Node, WriteRejected(r, n) PROVE Parts'
    BY <1>1, WriteAtType, PartsKept DEF WriteRejected, ackVars, Parts
  <1>2. ASSUME NEW n \in Node, WriteAssign(r, n) PROVE Parts'
    <2> DEFINE s == AssignNextVersion(store[n][KeyOf[r]])
    <2>1. s \in KeyState /\ s.next \in Nat
      BY Types, AssignNextVersionEffect DEF KeyState
    <2>2. UpdateKey(n, KeyOf[r], s)
          /\ write' = [write EXCEPT ![r] = [pc |-> "assigned", version |-> s.next]]
      BY <1>2 DEF WriteAssign
    <2> HIDE DEF s
    <2>3. StoreOK' /\ WriteOK'
      BY <2>1, <2>2, Types, UpdateKeyEffect DEF Parts, WriteOK
    <2> QED
      BY <2>3, <1>2, PartsKept DEF WriteAssign, ackVars, Parts
  <1>3. ASSUME WriteRecord(r) PROVE Parts'
    <2>1. StoreOK'
      BY <1>3, Types, Positions, RecordType DEF WriteRecord
    <2> QED
      BY <2>1, <1>3, WriteAtType, PartsKept DEF WriteRecord, ackVars, Parts
  <1>4. ASSUME WriteForward(r) PROVE Parts'
    <2>1. QueueOK'
      BY <1>4, Types, Positions, MessageType, EnqueueEffect DEF WriteForward, QueueOK
    <2> QED
      BY <2>1, <1>4, WriteAtType, PartsKept DEF WriteForward, ackVars, Parts
  <1>5. ASSUME WriteCommit(r) PROVE Parts'
    <2>1. StoreOK'
      BY <1>5, Types, Positions, CleanType DEF WriteCommit
    <2> QED
      BY <2>1, <1>5, WriteAtType, PartsKept DEF WriteCommit, ackVars, Parts
  <1>6. ASSUME WriteAck(r) PROVE Parts'
    <2>1. AckedOK' /\ LostOK'
      BY <1>6, MessageType, SendClientAckType DEF WriteAck
    <2> QED
      BY <2>1, <1>6, WriteAtType, PartsKept DEF WriteAck, ackVars, Parts
  <1> QED
    BY <1>1, <1>2, <1>3, <1>4, <1>5, <1>6 DEF WriteStep

LEMMA CallsType ==
  ASSUME Parts, NEW c \in rpc, PropagateStep(c) \/ CallFails(c)
  PROVE  Parts'
  <1>1. ASSUME PropagateRecord(c) PROVE Parts'
    <2>1. StoreOK' /\ RpcOK'
      BY <1>1, Types, RecordType, AdvanceEffect DEF PropagateRecord, RpcOK
    <2> QED
      BY <2>1, <1>1, PartsKept DEF PropagateRecord, ackVars, Parts
  <1>2. ASSUME PropagateForward(c) PROVE Parts'
    <2>1. QueueOK' /\ RpcOK'
      BY <1>2, Types, Positions, EnqueueEffect
      DEF PropagateForward, QueueOK, RpcOK, Return, Parts
    <2> QED
      BY <2>1, <1>2, PartsKept DEF PropagateForward, ackVars, Parts
  <1>3. ASSUME PropagateCommit(c) PROVE Parts'
    <2>1. StoreOK' /\ RpcOK'
      BY <1>3, Types, CleanType, AdvanceEffect DEF PropagateCommit, RpcOK
    <2> QED
      BY <2>1, <1>3, PartsKept DEF PropagateCommit, ackVars, Parts
  <1>4. ASSUME PropagateAck(c) PROVE Parts'
    <2>1. AckedOK' /\ LostOK' /\ RpcOK'
      BY <1>4, Types, SendClientAckType, AdvanceEffect DEF PropagateAck, RpcOK
    <2> QED
      BY <2>1, <1>4, PartsKept DEF PropagateAck, ackVars, Parts
  <1>5. ASSUME PropagateAckUpstream(c) PROVE Parts'
    <2>1. AckQueueOK'
      BY <1>5, Types, AckEnqueueEffect
      DEF PropagateAckUpstream, EnqueueAck, AckQueueOK
    <2>2. RpcOK'
      BY <1>5 DEF PropagateAckUpstream, Return, RpcOK, Parts
    <2> QED
      BY <2>1, <2>2, <1>5, PartsKept DEF PropagateAckUpstream, EnqueueAck, Parts
  <1>6. ASSUME CallFails(c) PROVE Parts'
    <2>1. QueueOK' /\ RpcOK' /\ LostOK'
      <3>1. DispatcherTypeOK'
        BY <1>6, Types, CallFailsEffect DEF CallFails
      <3> QED
        BY <3>1 DEF DispatcherTypeOK, QueueOK, RpcOK, LostOK
    <2> QED
      BY <2>1, <1>6, PartsKept DEF CallFails, ackVars, Parts
  <1> QED
    BY <1>1, <1>2, <1>3, <1>4, <1>5, <1>6 DEF PropagateStep

LEMMA AckCallsType ==
  ASSUME Parts, NEW a \in ackRpc, AckStep(a) \/ AckCallFails(a)
  PROVE  Parts'
  <1>1. ASSUME AckMarkClean(a) PROVE Parts'
    <2>1. StoreOK' /\ AckRpcOK'
      BY <1>1, Types, CleanType, AckAdvanceEffect DEF AckMarkClean, AckRpcOK
    <2> QED
      BY <2>1, <1>1, PartsKept DEF AckMarkClean, Parts
  <1>2. ASSUME AckForward(a) PROVE Parts'
    <2>1. AckQueueOK'
      BY <1>2, Types, AckEnqueueEffect, PartsKept DEF AckForward, AckQueueOK
    <2>2. AckRpcOK'
      BY <1>2 DEF AckForward, AckWorker!Return, AckRpcOK, Parts
    <2> QED
      BY <2>1, <2>2, <1>2, PartsKept DEF AckForward, Parts
  <1>3. ASSUME AckCallFails(a) PROVE Parts'
    <2>1. AckQueueOK' /\ AckRpcOK' /\ LostOK'
      <3>1. AckDispatcherOK'
        BY <1>3, Types, AckCallFailsEffect DEF AckCallFails
      <3> QED
        BY <3>1 DEF AckDispatcherOK, AckQueueOK, AckRpcOK, LostOK
    <2> QED
      BY <2>1, <1>3, PartsKept DEF AckCallFails, Parts
  <1> QED
    BY <1>1, <1>2, <1>3 DEF AckStep

LEMMA SendsType ==
  ASSUME Parts, NEW n \in Node, Send(n) \/ SendAck(n)
  PROVE  Parts'
  <1>1. ASSUME Send(n) PROVE Parts'
    <2>1. QueueOK' /\ RpcOK' /\ UNCHANGED lost
      BY <1>1, Types, WorkerSendEffect DEF Send, QueueOK, RpcOK
    <2> QED
      BY <2>1, <1>1, PartsKept DEF Send, ackVars, Parts
  <1>2. ASSUME SendAck(n) PROVE Parts'
    <2>1. AckQueueOK' /\ AckRpcOK' /\ UNCHANGED lost
      BY <1>2, Types, AckSendEffect DEF SendAck, AckQueueOK, AckRpcOK
    <2> QED
      BY <2>1, <1>2, PartsKept DEF SendAck, Parts
  <1> QED
    BY <1>1, <1>2

(* The handlers of the reads change nothing but the read itself. *)
ReadChange(i) == read' = [read EXCEPT ![i] = read'[i]]

LEMMA ReadsType ==
  ASSUME Parts, NEW i \in Reader,
         \/ \E n \in Node, k \in Key : ReadLocalClean(i, n, k)
         \/ ReadStep(i) \/ QueryFails(i)
  PROVE  Parts' /\ ReadChange(i) /\ UnchangedByRead
  <1>r. /\ read[i] \in ReadRecord /\ read \in [Reader -> ReadRecord]
        /\ \A n \in Node, k \in Key :
              ReadClean(store[n][k]) \in Answer /\ store[n][k].committed \in Nat
    BY Types, ReadCleanEffect DEF Answer, KeyState, Parts, ReadOK
  <1>1. UnchangedByRead
    BY DEF ReadStep, ReadLocalClean, ReadLatest, QueryTail, QueryAnswered,
           ReadMaterialize, QueryFails
  <1>2. ASSUME NEW R \in ReadRecord, read' = [read EXCEPT ![i] = R]
        PROVE  Parts' /\ ReadChange(i) /\ UnchangedByRead
    <2>1. ReadOK' /\ ReadChange(i)
      BY <1>r, <1>2 DEF ReadOK, ReadChange
    <2> QED
      BY <1>1, <2>1, PartsKept DEF UnchangedByRead, ackVars, Parts
  <1>3. ASSUME NEW pc \in {"dirty", "done", "notFound", "queryFailed", "notMaterialized"},
               ReadAt(i, pc)
        PROVE  Parts' /\ ReadChange(i) /\ UnchangedByRead
    <2>1. [read[i] EXCEPT !.pc = pc] \in ReadRecord
      BY <1>r DEF ReadRecord
    <2>2. read' = [read EXCEPT ![i] = [read[i] EXCEPT !.pc = pc]]
      BY <1>3 DEF ReadAt
    <2> QED
      BY <1>2, <2>1, <2>2
  <1>4. ASSUME NEW n \in Node, NEW k \in Key, ReadLocalClean(i, n, k)
        PROVE  Parts' /\ ReadChange(i) /\ UnchangedByRead
    <2> DEFINE clean == ReadClean(store[n][k])
               R == [pc |-> IF ~IsTail(n) THEN "clean"
                            ELSE IF clean.found THEN "done" ELSE "notFound",
                     node |-> n, key |-> k, clean |-> clean, tail |-> 0,
                     floor |-> store[TailNode][k].committed]
    <2>1. R \in ReadRecord
      BY <1>r, Positions DEF ReadRecord
    <2>2. read' = [read EXCEPT ![i] = R]
      BY <1>4 DEF ReadLocalClean
    <2> HIDE DEF R
    <2> QED
      BY <1>2, <2>1, <2>2
  <1>5. ASSUME ReadLatest(i) PROVE Parts' /\ ReadChange(i) /\ UnchangedByRead
    BY <1>3, <1>5 DEF ReadLatest
  <1>6. ASSUME QueryTail(i) PROVE Parts' /\ ReadChange(i) /\ UnchangedByRead
    <2> DEFINE v == ReadClean(store[TailNode][read[i].key]).version
               R == [read[i] EXCEPT !.tail = v,
                                    !.pc = IF v = 0 THEN "notFound" ELSE "queried"]
    <2>1. v \in Nat
      BY <1>r, Positions DEF Answer, ReadRecord
    <2>2. read' = [read EXCEPT ![i] = R]
      BY <1>6 DEF QueryTail, QueryAnswered
    <2> HIDE DEF v
    <2>3. R \in ReadRecord
      BY <1>r, <2>1 DEF ReadRecord
    <2> HIDE DEF R
    <2> QED
      BY <1>2, <2>2, <2>3
  <1>7. ASSUME ReadMaterialize(i) PROVE Parts' /\ ReadChange(i) /\ UnchangedByRead
    <2> DEFINE clean == read[i].clean
               local == IF clean.found /\ clean.version = read[i].tail THEN clean
                        ELSE ReadValueAtVersion(store[read[i].node][read[i].key],
                                                read[i].tail)
    <2>1. /\ clean \in Answer /\ read[i].tail \in Nat
          /\ store[read[i].node][read[i].key] \in KeyState
      BY <1>r, Types DEF ReadRecord
    <2>2. ReadValueAtVersion(store[read[i].node][read[i].key], read[i].tail) \in Answer
      <3>1. CASE read[i].tail = 0
        BY <3>1 DEF ReadValueAtVersion, NotFound, Answer
      <3>2. CASE read[i].tail # 0
        BY <2>1, <3>2, ReadValueAtVersionEffect DEF Answer
      <3> QED
        BY <3>1, <3>2
    <2>3. local \in Answer
      BY <2>1, <2>2
    <2>4. IF local.found
          THEN read' = [read EXCEPT ![i].pc = "done", ![i].clean = local]
          ELSE ReadAt(i, "notMaterialized")
      BY <1>7 DEF ReadMaterialize
    <2> HIDE DEF local
    <2>5. [read[i] EXCEPT !.pc = "done", !.clean = local] \in ReadRecord
      BY <1>r, <2>3 DEF ReadRecord
    <2>6. read' = [read EXCEPT ![i].pc = "done", ![i].clean = local]
          => read' = [read EXCEPT ![i] = [read[i] EXCEPT !.pc = "done", !.clean = local]]
      BY <1>r
    <2> QED
      BY <1>2, <1>3, <2>4, <2>5, <2>6
  <1>8. ASSUME QueryFails(i) PROVE Parts' /\ ReadChange(i) /\ UnchangedByRead
    BY <1>3, <1>8 DEF QueryFails
  <1> QED
    BY <1>4, <1>5, <1>6, <1>7, <1>8 DEF ReadStep

LEMMA NextTypeOK == TypeOK /\ [Next]_vars => TypeOK'
  <1>1. Parts /\ [Next]_vars => Parts'
    <2> SUFFICES ASSUME Parts, [Next]_vars PROVE Parts'
      OBVIOUS
    <2>1. CASE UNCHANGED vars
      BY <2>1, PartsKept DEF vars, Parts
    <2> QED
      BY <2>1, WritesType, CallsType, AckCallsType, SendsType, ReadsType
      DEF Next, Handling, Terminating
  <1> QED
    BY <1>1, TypeParts, PTL

(* Type correctness of CRAQ mode. *)
THEOREM TypeCorrect == Spec => []TypeOK
  BY InitTypeOK, NextTypeOK, PTL DEF Spec

-----------------------------------------------------------------------------
(* What the steps do to the store *)

(* Nothing goes back, and a version leaves pending only for a clean one at *)
(* or above it.                                                            *)
KeptOrAbove(t, s) ==
    /\ t.next >= s.next /\ t.seen >= s.seen /\ t.committed >= s.committed
    /\ \A p \in s.pending : \/ \E q \in t.pending : q.version = p.version
                            \/ t.committed >= p.version

StoreKeeps == \A n \in Node, k \in Key : KeptOrAbove(store'[n][k], store[n][k])

VersionsStay ==
    \A r \in Req : write[r].version # 0 => write'[r].version = write[r].version

(* Only key k of node n may have changed; what is new there is version v,  *)
(* seen and pending with the value r, and clean with a value that was      *)
(* pending.                                                                *)
Touched(n, k, r, v) ==
    /\ StoreKeeps
    /\ store'[n][k].next \in {store[n][k].next, v}
    /\ \/ /\ store'[n][k].seen = store[n][k].seen
          /\ store'[n][k].seenValue = store[n][k].seenValue
       \/ store'[n][k].seen = v /\ store'[n][k].seenValue = r
    /\ \/ /\ store'[n][k].committed = store[n][k].committed
          /\ store'[n][k].committedValue = store[n][k].committedValue
       \/ /\ store'[n][k].committed = v
          /\ \E p \in store[n][k].pending :
                p.version = v /\ p.value = store'[n][k].committedValue
    /\ \A p \in store'[n][k].pending :
          p \in store[n][k].pending \/ (p.version = v /\ p.value = r)
    /\ \A m \in Node, j \in Key : m # n \/ j # k => store'[m][j] = store[m][j]

(* Kept, in the next state *)
KeptNext(n, k, v) ==
    /\ store'[n][k].seen >= v
    /\ \/ store'[n][k].committed >= v
       \/ \E p \in store'[n][k].pending : p.version = v

LEMMA StoreType ==
  ASSUME Parts
  PROVE  \A n \in Node, k \in Key :
            /\ store[n][k].next \in Nat /\ store[n][k].seen \in Nat
            /\ store[n][k].committed \in Nat
            /\ \A p \in store[n][k].pending : p.version \in Nat
  BY Types, KeyStateFields

LEMMA SameIsKeptOrAbove ==
  ASSUME NEW s \in KeyState
  PROVE  KeptOrAbove(s, s)
  BY KeyStateFields DEF KeptOrAbove

(* record_local_write brings a version, which the node then keeps. *)
LEMMA RecordTouches ==
  ASSUME Parts, NEW n \in Node, NEW r \in Req, NEW v \in Nat,
         UpdateKey(n, KeyOf[r], RecordLocalWrite(store[n][KeyOf[r]], r, v))
  PROVE  /\ Touched(n, KeyOf[r], r, v) /\ KeptNext(n, KeyOf[r], v)
         /\ store'[n][KeyOf[r]].committed = store[n][KeyOf[r]].committed
         /\ store'[n][KeyOf[r]].committedValue = store[n][KeyOf[r]].committedValue
  <1> DEFINE k == KeyOf[r]
             s == store[n][k]
             t == RecordLocalWrite(s, r, v)
  <1>1. k \in Key /\ s \in KeyState /\ StoreOK
    BY Types DEF Parts
  <1> HIDE DEF k, s
  <1>2. /\ t \in KeyState
        /\ t.next >= s.next /\ t.next \in {s.next, v}
        /\ t.seen >= s.seen /\ t.seen >= v
        /\ \/ t.seen = s.seen /\ t.seenValue = s.seenValue
           \/ t.seen = v /\ t.seenValue = r
        /\ t.committed = s.committed /\ t.committedValue = s.committedValue
        /\ \A p \in t.pending : p \in s.pending \/ (p.version = v /\ p.value = r)
        /\ \E p \in t.pending : p.version = v
        /\ \A p \in s.pending : \E q \in t.pending : q.version = p.version
    BY <1>1, RecordLocalWriteEffect
  <1>3. UpdateKey(n, k, t)
    BY DEF k, s
  <1> HIDE DEF t
  <1>4. /\ store'[n][k] = t
        /\ \A m \in Node, j \in Key : m # n \/ j # k => store'[m][j] = store[m][j]
    BY <1>1, <1>2, <1>3, UpdateKeyEffect
  <1>5. KeptOrAbove(t, s)
    BY <1>1, <1>2, KeyStateFields DEF KeptOrAbove
  <1>6. StoreKeeps
    BY <1>4, <1>5, Types, SameIsKeptOrAbove DEF StoreKeeps, s
  <1>7. KeptNext(n, k, v)
    BY <1>2, <1>4 DEF KeptNext
  <1>8. Touched(n, k, r, v)
    BY <1>2, <1>4, <1>6 DEF Touched, s
  <1> QED
    BY <1>2, <1>4, <1>7, <1>8 DEF k, s

(* mark_version_clean of a version the node keeps ends with it or a newer  *)
(* one clean, and with nothing pending under it.                           *)
LEMMA CleanTouches ==
  ASSUME Parts, NEW n \in Node, NEW r \in Req, NEW v \in Nat,
         UpdateKey(n, KeyOf[r], MarkVersionClean(store[n][KeyOf[r]], v)),
         Kept(n, KeyOf[r], v)
  PROVE  /\ Touched(n, KeyOf[r], r, v)
         /\ store'[n][KeyOf[r]].committed >= v
         /\ v # 0 => \A p \in store'[n][KeyOf[r]].pending : p.version # v
  <1> DEFINE k == KeyOf[r]
             s == store[n][k]
             t == MarkVersionClean(s, v)
  <1>1. /\ k \in Key /\ s \in KeyState /\ StoreOK
        /\ s.committed >= v \/ \E p \in s.pending : p.version = v
    BY Types DEF Parts, Kept
  <1> HIDE DEF k, s
  <1>2. /\ t \in KeyState
        /\ t.next >= s.next /\ t.next \in {s.next, v}
        /\ t.seen = s.seen /\ t.seenValue = s.seenValue
        /\ t.committed >= s.committed
        /\ \/ t.committed = s.committed /\ t.committedValue = s.committedValue
           \/ /\ t.committed = v
              /\ \E p \in s.pending : p.version = v /\ p.value = t.committedValue
        /\ t.pending \subseteq s.pending
        /\ \A p \in s.pending : p \in t.pending \/ t.committed >= p.version
        /\ t.committed >= v
        /\ t.committed # 0 => \A p \in t.pending : p.version > t.committed
    BY <1>1, MarkVersionCleanEffect
  <1>3. UpdateKey(n, k, t)
    BY DEF k, s
  <1> HIDE DEF t
  <1>4. /\ store'[n][k] = t
        /\ \A m \in Node, j \in Key : m # n \/ j # k => store'[m][j] = store[m][j]
    BY <1>1, <1>2, <1>3, UpdateKeyEffect
  <1>5. KeptOrAbove(t, s)
    BY <1>1, <1>2, KeyStateFields DEF KeptOrAbove
  <1>6. StoreKeeps
    BY <1>4, <1>5, Types, SameIsKeptOrAbove DEF StoreKeeps, s
  <1>7. Touched(n, k, r, v)
    BY <1>2, <1>4, <1>6 DEF Touched, s
  <1>8. v # 0 => \A p \in t.pending : p.version # v
    BY <1>2, KeyStateFields
  <1> QED
    BY <1>2, <1>4, <1>7, <1>8 DEF k

(* assign_next_version changes only the counter of the head. *)
LEMMA AssignTouches ==
  ASSUME Parts, NEW r \in Req, NEW n \in Node, WriteAssign(r, n)
  PROVE  /\ n = HeadNode
         /\ StoreKeeps
         /\ write[r].pc = "idle"
         /\ write' = [write EXCEPT ![r] =
                        [pc |-> "assigned", version |-> store[n][KeyOf[r]].next + 1]]
         /\ store'[n][KeyOf[r]].next = store[n][KeyOf[r]].next + 1
         /\ \A m \in Node, j \in Key :
               /\ m # n \/ j # KeyOf[r] => store'[m][j].next = store[m][j].next
               /\ store'[m][j].seen = store[m][j].seen
               /\ store'[m][j].seenValue = store[m][j].seenValue
               /\ store'[m][j].committed = store[m][j].committed
               /\ store'[m][j].committedValue = store[m][j].committedValue
               /\ store'[m][j].pending = store[m][j].pending
         /\ UNCHANGED <<queue, rpc, acked, lost, ackVars, read>>
  <1> DEFINE k == KeyOf[r]
             s == store[n][k]
             t == AssignNextVersion(s)
  <1>1. k \in Key /\ s \in KeyState /\ StoreOK
    BY Types DEF Parts
  <1>2. /\ t \in KeyState
        /\ t.next = s.next + 1
        /\ t.seen = s.seen /\ t.seenValue = s.seenValue
        /\ t.committed = s.committed /\ t.committedValue = s.committedValue
        /\ t.pending = s.pending
    BY <1>1, AssignNextVersionEffect
  <1>3. /\ UpdateKey(n, k, t) /\ n = HeadNode /\ write[r].pc = "idle"
        /\ write' = [write EXCEPT ![r] = [pc |-> "assigned", version |-> t.next]]
        /\ UNCHANGED <<queue, rpc, acked, lost, ackVars, read>>
    BY DEF WriteAssign, IsHead
  <1> HIDE DEF t
  <1>4. /\ store'[n][k] = t
        /\ \A m \in Node, j \in Key : m # n \/ j # k => store'[m][j] = store[m][j]
    BY <1>1, <1>2, <1>3, UpdateKeyEffect
  <1>5. KeptOrAbove(t, s)
    BY <1>1, <1>2, KeyStateFields DEF KeptOrAbove
  <1>6. StoreKeeps
    BY <1>4, <1>5, Types, SameIsKeptOrAbove DEF StoreKeeps
  <1> QED
    BY <1>2, <1>3, <1>4, <1>6

-----------------------------------------------------------------------------
(* What the steps that touch the store do, given who holds which message *)

LEMMA ChainOrder ==
  /\ \A n, i \in Node : IsTail(n) => i <= n /\ ~(i > n)
  /\ \A i \in Node : ~(i < HeadNode)
  /\ \A a, b, i \in Node : b = Successor(a) /\ i < b => i <= a
  /\ \A a, b, i \in Node : b = Successor(a) /\ i <= b => i <= a \/ i = b
  /\ \A a, b, i \in Node : b = Predecessor(a) /\ i > b => i = a \/ a < i
  BY ChainAssumption DEF HeadNode, TailNode, IsTail, Successor, Predecessor

IsMessage(m) == m.req \in Req /\ m.version \in Nat

(* Version v of r comes to node n, where all nodes before n keep it. *)
Arrives(n, r, v) ==
    /\ Touched(n, KeyOf[r], r, v) /\ KeptNext(n, KeyOf[r], v)
    /\ store'[n][KeyOf[r]].committed = store[n][KeyOf[r]].committed
    /\ store'[n][KeyOf[r]].committedValue = store[n][KeyOf[r]].committedValue
    /\ \A i \in Node : i < n => Kept(i, KeyOf[r], v)

(* Version v of r becomes clean at node n, where all nodes keep it and     *)
(* those after n have it clean.                                            *)
BecomesClean(n, r, v) ==
    /\ Touched(n, KeyOf[r], r, v)
    /\ store'[n][KeyOf[r]].committed >= v
    /\ \A p \in store'[n][KeyOf[r]].pending : p.version # v
    /\ \A i \in Node : Kept(i, KeyOf[r], v)
    /\ \A j \in Node : j > n => store[j][KeyOf[r]].committed >= v

LEMMA WriteTouches ==
  ASSUME Parts, HoldersPassed, NEW r \in Req
  PROVE  /\ WriteRecord(r) => /\ write[r].version # 0
                              /\ Arrives(HeadNode, r, write[r].version)
         /\ WriteCommit(r) => /\ write[r].version # 0
                              /\ BecomesClean(HeadNode, r, write[r].version)
  <1> DEFINE v == write[r].version
  <1>1. v \in Nat /\ WritePassed(r) /\ HeadNode \in Node
    BY Types, Positions DEF HoldersPassed
  <1>2. ASSUME WriteRecord(r) PROVE v # 0 /\ Arrives(HeadNode, r, v)
    <2>1. v # 0
      BY <1>1, <1>2 DEF WriteRecord, WritePassed
    <2>2. UpdateKey(HeadNode, KeyOf[r], RecordLocalWrite(store[HeadNode][KeyOf[r]], r, v))
      BY <1>2 DEF WriteRecord
    <2> HIDE DEF v
    <2>3. /\ Touched(HeadNode, KeyOf[r], r, v) /\ KeptNext(HeadNode, KeyOf[r], v)
          /\ store'[HeadNode][KeyOf[r]].committed = store[HeadNode][KeyOf[r]].committed
          /\ store'[HeadNode][KeyOf[r]].committedValue
                = store[HeadNode][KeyOf[r]].committedValue
      BY <1>1, <2>2, RecordTouches
    <2>4. \A i \in Node : ~(i < HeadNode)
      BY ChainOrder
    <2> QED
      BY <2>1, <2>3, <2>4 DEF Arrives
  <1>3. ASSUME WriteCommit(r) PROVE v # 0 /\ BecomesClean(HeadNode, r, v)
    <2>1. v # 0 /\ IsTail(HeadNode) /\ Passed(HeadNode, Message(r))
      BY <1>1, <1>3 DEF WriteCommit, WritePassed
    <2>2. UpdateKey(HeadNode, KeyOf[r], MarkVersionClean(store[HeadNode][KeyOf[r]], v))
      BY <1>3 DEF WriteCommit
    <2>3. \A i \in Node : i <= HeadNode /\ ~(i > HeadNode)
      BY <1>1, <2>1, ChainOrder
    <2>4. \A i \in Node : Kept(i, KeyOf[r], v)
      BY <2>1, <2>3 DEF Passed, Message
    <2> HIDE DEF v
    <2>5. /\ Touched(HeadNode, KeyOf[r], r, v)
          /\ store'[HeadNode][KeyOf[r]].committed >= v
          /\ \A p \in store'[HeadNode][KeyOf[r]].pending : p.version # v
      BY <1>1, <2>1, <2>2, <2>4, CleanTouches DEF v
    <2> QED
      BY <2>1, <2>3, <2>4, <2>5 DEF BecomesClean
  <1> QED
    BY <1>2, <1>3

LEMMA PropagateTouches ==
  ASSUME Parts, HoldersPassed, NEW c \in rpc
  PROVE  /\ c.msg.req \in Req /\ c.msg.version = write[c.msg.req].version
         /\ c.msg.version # 0 /\ c.to \in Node
         /\ PropagateRecord(c) => Arrives(c.to, c.msg.req, c.msg.version)
         /\ PropagateCommit(c) => BecomesClean(c.to, c.msg.req, c.msg.version)
  <1> DEFINE r == c.msg.req
             v == c.msg.version
             n == c.to
  <1>1. /\ r \in Req /\ v \in Nat /\ n \in Node /\ c.from \in Node
        /\ CallPassed(c)
    BY Types DEF HoldersPassed
  <1>2. v # 0 /\ v = write[r].version
    BY <1>1 DEF CallPassed, Genuine
  <1>3. ASSUME PropagateRecord(c) PROVE Arrives(n, r, v)
    <2>1. UpdateKey(n, KeyOf[r], RecordLocalWrite(store[n][KeyOf[r]], r, v))
      BY <1>3 DEF PropagateRecord
    <2>2. \A i \in Node : i < n => i <= c.from
      BY <1>1, ChainOrder DEF CallPassed
    <2>3. \A i \in Node : i < n => Kept(i, KeyOf[r], v)
      BY <1>1, <2>2 DEF CallPassed, Passed
    <2> HIDE DEF r, v, n
    <2> QED
      BY <1>1, <2>1, <2>3, RecordTouches DEF Arrives
  <1>4. ASSUME PropagateCommit(c) PROVE BecomesClean(n, r, v)
    <2>1. UpdateKey(n, KeyOf[r], MarkVersionClean(store[n][KeyOf[r]], v))
      BY <1>4 DEF PropagateCommit
    <2>2. IsTail(n) /\ Passed(n, c.msg)
      BY <1>1, <1>4 DEF PropagateCommit, CallPassed
    <2>3. \A i \in Node : i <= n /\ ~(i > n)
      BY <1>1, <2>2, ChainOrder
    <2>4. \A i \in Node : Kept(i, KeyOf[r], v)
      BY <2>2, <2>3 DEF Passed
    <2> HIDE DEF r, v, n
    <2> QED
      BY <1>1, <1>2, <2>1, <2>3, <2>4, CleanTouches DEF BecomesClean
  <1> QED
    BY <1>1, <1>2, <1>3, <1>4

LEMMA AckTouches ==
  ASSUME Parts, HoldersPassed, CleanOrder, NEW a \in ackRpc
  PROVE  /\ a.msg.req \in Req /\ a.msg.version = write[a.msg.req].version
         /\ a.msg.version # 0 /\ a.to \in Node
         /\ AckMarkClean(a) => BecomesClean(a.to, a.msg.req, a.msg.version)
  <1> DEFINE r == a.msg.req
             v == a.msg.version
             n == a.to
  <1>1. /\ r \in Req /\ v \in Nat /\ n \in Node /\ a.from \in Node
        /\ AckCallPassed(a)
    BY Types DEF HoldersPassed
  <1>2. v # 0 /\ v = write[r].version
    BY <1>1 DEF AckCallPassed, Genuine
  <1>3. ASSUME AckMarkClean(a) PROVE BecomesClean(n, r, v)
    <2>1. UpdateKey(n, KeyOf[r], MarkVersionClean(store[n][KeyOf[r]], v))
      BY <1>3 DEF AckMarkClean
    <2>2. \A i \in Node : Kept(i, KeyOf[r], v)
      BY <1>1, Positions DEF AckCallPassed, Passed
    <2>3. KeyOf[r] \in Key /\ store[a.from][KeyOf[r]].committed >= v
      BY <1>1, Types DEF AckCallPassed, CleanAt
    <2>4. \A j \in Node : j > n => j = a.from \/ a.from < j
      BY <1>1, ChainOrder DEF AckCallPassed
    <2>5. \A j \in Node : a.from < j =>
             store[a.from][KeyOf[r]].committed <= store[j][KeyOf[r]].committed
      BY <1>1, <2>3 DEF CleanOrder
    <2>6. \A j \in Node : store[j][KeyOf[r]].committed \in Nat
      BY <2>3, StoreType
    <2> HIDE DEF r, v, n
    <2>7. \A j \in Node : j > n => store[j][KeyOf[r]].committed >= v
      BY <1>1, <2>3, <2>4, <2>5, <2>6
    <2> QED
      BY <1>1, <1>2, <2>1, <2>2, <2>7, CleanTouches DEF BecomesClean
  <1> QED
    BY <1>1, <1>2, <1>3

(* Every step leaves the store alone, gives out a version at the head, or  *)
(* lets a genuine version arrive or become clean at one node; who lets it  *)
(* arrive still has to send it on.                                         *)
LEMMA StoreSteps ==
  ASSUME Parts, HoldersPassed, CleanOrder, [Next]_vars
  PROVE  \/ UNCHANGED store
         \/ \E r \in Req, n \in Node : WriteAssign(r, n)
         \/ \E n \in Node, r \in Req :
               /\ write[r].version # 0
               /\ \/ Arrives(n, r, write[r].version) /\ BeforeTail(r)'
                  \/ BecomesClean(n, r, write[r].version)
  <1>1. ASSUME NEW r \in Req, WriteRecord(r) \/ WriteCommit(r)
        PROVE  /\ HeadNode \in Node /\ write[r].version # 0
               /\ \/ Arrives(HeadNode, r, write[r].version) /\ BeforeTail(r)'
                  \/ BecomesClean(HeadNode, r, write[r].version)
    <2>1. WriteRecord(r) => BeforeTail(r)'
      BY DEF WriteRecord, WriteAt, Parts, WriteOK, BeforeTail
    <2> QED
      BY <1>1, <2>1, WriteTouches, Positions
  <1>2. ASSUME NEW c \in rpc, PropagateRecord(c) \/ PropagateCommit(c)
        PROVE  \E n \in Node, r \in Req :
                  /\ write[r].version # 0
                  /\ \/ Arrives(n, r, write[r].version) /\ BeforeTail(r)'
                     \/ BecomesClean(n, r, write[r].version)
    <2> DEFINE n == c.to
               r == c.msg.req
    <2>1. /\ n \in Node /\ r \in Req /\ write[r].version # 0
          /\ \/ PropagateRecord(c) /\ Arrives(n, r, write[r].version)
             \/ BecomesClean(n, r, write[r].version)
      BY <1>2, PropagateTouches
    <2>2. ASSUME NEW q, q = c.msg.req, PropagateRecord(c) PROVE BeforeTail(q)'
      <3>1. \E e \in rpc' : e.msg = c.msg /\ e.pc = "recorded"
        BY <2>2, Types, AdvanceKeeps DEF PropagateRecord
      <3> QED
        BY <2>2, <3>1 DEF CallOf, BeforeTail
    <2>3. \A q : q = r => (PropagateRecord(c) => BeforeTail(q)')
      BY <2>2
    <2> HIDE DEF n, r
    <2> QED
      BY <2>1, <2>3
  <1>3. ASSUME NEW a \in ackRpc, AckMarkClean(a)
        PROVE  \E n \in Node, r \in Req :
                  /\ write[r].version # 0
                  /\ BecomesClean(n, r, write[r].version)
    <2> DEFINE n == a.to
               r == a.msg.req
    <2>1. /\ n \in Node /\ r \in Req /\ write[r].version # 0
          /\ BecomesClean(n, r, write[r].version)
      BY <1>3, AckTouches
    <2> HIDE DEF n, r
    <2> QED
      BY <2>1
  <1>4. ASSUME NEW i \in Reader,
               \/ \E n \in Node, k \in Key : ReadLocalClean(i, n, k)
               \/ ReadStep(i) \/ QueryFails(i)
        PROVE  UNCHANGED store
    BY <1>4, ReadsType DEF UnchangedByRead
  <1> QED
    BY <1>1, <1>2, <1>3, <1>4
    DEF Next, WriteRejected, WriteStep, Handling, WriteForward, WriteAck, Send,
        SendAck, PropagateStep, PropagateForward, PropagateAck, PropagateAckUpstream,
        CallFails, AckStep, AckForward, AckCallFails, Terminating, vars

LEMMA StepGrows ==
  ASSUME Parts, HoldersPassed, CleanOrder, [Next]_vars
  PROVE  StoreKeeps /\ VersionsStay
  <1>1. UNCHANGED store => StoreKeeps
    BY Types, SameIsKeptOrAbove DEF StoreKeeps
  <1>2. StoreKeeps
    BY <1>1, AssignTouches, StoreSteps DEF Arrives, BecomesClean, Touched
  <1>3. UNCHANGED write => VersionsStay
    BY DEF VersionsStay
  <1>4. \A r \in Req : \A pc : WriteAt(r, pc) => VersionsStay
    BY DEF WriteAt, VersionsStay, Parts, WriteOK
  <1>5. ASSUME NEW r \in Req, NEW n \in Node, WriteAssign(r, n)
        PROVE  VersionsStay
    <2>1. WritePassed(r) /\ write[r].pc = "idle"
      BY <1>5, AssignTouches DEF HoldersPassed
    <2> QED
      BY <1>5, <2>1, AssignTouches DEF VersionsStay, WritePassed, Parts, WriteOK
  <1>6. VersionsStay
    BY <1>3, <1>4, <1>5, ReadsType
    DEF Next, WriteRejected, WriteStep, Handling, WriteRecord, WriteForward,
        WriteCommit, WriteAck, Send, SendAck, PropagateStep, PropagateRecord,
        PropagateForward, PropagateCommit, PropagateAck, PropagateAckUpstream,
        CallFails, AckStep, AckMarkClean, AckForward, AckCallFails,
        UnchangedByRead, Terminating, vars
  <1> QED
    BY <1>2, <1>6

-----------------------------------------------------------------------------
(* What has come to a node stays *)

LEMMA KeptStays ==
  ASSUME Parts, Parts', StoreKeeps,
         NEW n \in Node, NEW k \in Key, NEW v \in Nat, Kept(n, k, v)
  PROVE  KeptNext(n, k, v)
  <1> DEFINE s == store[n][k]
             t == store'[n][k]
  <1>1. KeptOrAbove(t, s)
    BY DEF StoreKeeps
  <1>2. s \in KeyState /\ t \in KeyState
    BY DEF Parts, StoreOK
  <1>3. s.seen >= v /\ (s.committed >= v \/ \E p \in s.pending : p.version = v)
    BY DEF Kept
  <1> HIDE DEF s, t
  <1>4. t.seen >= v /\ (t.committed >= v \/ \E p \in t.pending : p.version = v)
    BY <1>1, <1>2, <1>3, KeyStateFields DEF KeptOrAbove
  <1> QED
    BY <1>4 DEF KeptNext, t

(* A genuine message stays genuine, and stays where it has come to. *)
LEMMA MessageStays ==
  ASSUME Parts, Parts', StoreKeeps, VersionsStay
  PROVE  \A m : IsMessage(m) =>
            /\ Genuine(m) => Genuine(m)'
            /\ Committed(m) => Committed(m)'
            /\ \A n \in Node : CleanAt(n, m) => CleanAt(n, m)'
            /\ \A n \in Node : Passed(n, m) => Passed(n, m)'
  <1>1. \A n \in Node, k \in Key :
           /\ store[n][k].committed \in Nat /\ store'[n][k].committed \in Nat
           /\ store'[n][k].committed >= store[n][k].committed
    <2>1. \A n \in Node, k \in Key :
             store[n][k] \in KeyState /\ store'[n][k] \in KeyState
      BY DEF Parts, StoreOK
    <2> QED
      BY <2>1, KeyStateFields DEF StoreKeeps, KeptOrAbove
  <1>2. \A m : IsMessage(m) => KeyOf[m.req] \in Key
    BY KeyOfAssumption DEF IsMessage
  <1>3. \A m : IsMessage(m) => (Genuine(m) => Genuine(m)')
    BY DEF IsMessage, Genuine, VersionsStay
  <1>4. \A m : IsMessage(m) => \A n \in Node : CleanAt(n, m) => CleanAt(n, m)'
    BY <1>1, <1>2 DEF IsMessage, CleanAt
  <1>5. \A m : IsMessage(m) => (Committed(m) => Committed(m)')
    BY <1>1, <1>2, Positions DEF IsMessage, Committed
  <1>6. ASSUME NEW m, IsMessage(m), NEW n \in Node, Passed(n, m) PROVE Passed(n, m)'
    <2>1. \A i \in Node : i <= n => KeptNext(i, KeyOf[m.req], m.version)
      BY <1>2, <1>6, KeptStays DEF Passed, IsMessage
    <2> QED
      BY <2>1 DEF Passed, Kept, KeptNext
  <1> QED
    BY <1>3, <1>4, <1>5, <1>6

(* A message that arrives at the next node has passed it. *)
LEMMA ArrivesPassed ==
  ASSUME Parts, Parts', StoreKeeps, NEW n \in Node,
         NEW m, IsMessage(m), Arrives(n, m.req, m.version)
  PROVE  Passed(n, m)'
  <1>1. KeyOf[m.req] \in Key
    BY KeyOfAssumption DEF IsMessage
  <1>2. \A i \in Node : i <= n => i < n \/ i = n
    BY Positions
  <1>3. \A i \in Node : i <= n => KeptNext(i, KeyOf[m.req], m.version)
    BY <1>1, <1>2, KeptStays DEF Arrives, IsMessage
  <1> QED
    BY <1>3 DEF Passed, Kept, KeptNext

LEMMA BecomesCleanAt ==
  ASSUME NEW n \in Node, NEW m, BecomesClean(n, m.req, m.version)
  PROVE  CleanAt(n, m)'
  BY DEF BecomesClean, CleanAt

-----------------------------------------------------------------------------
(* HoldersPassed *)

(* The messages of the tasks, calls and handlers are messages. *)
LEMMA Messages ==
  ASSUME Parts
  PROVE  /\ \A n \in Node : \A t \in Tasks(n) : t \in PropagateTask /\ IsMessage(t.msg)
         /\ \A n \in Node : \A t \in AckWorker!Tasks(n) :
               t \in PropagateTask /\ IsMessage(t.msg)
         /\ \A c \in rpc : IsMessage(c.msg)
         /\ \A a \in ackRpc : IsMessage(a.msg)
         /\ \A r \in Req : IsMessage(Message(r)) /\ Message(r).req = r
  <1>1. \A t \in PropagateTask : IsMessage(t.msg)
    BY DEF PropagateTask, PropagateRequest, IsMessage
  <1>2. ASSUME NEW n \in Node, NEW t \in Tasks(n) PROVE t \in PropagateTask
    <2>1. queue[n] \in Seq(PropagateTask)
      BY DEF Parts, QueueOK
    <2> QED
      BY <1>2, <2>1 DEF Tasks
  <1>3. ASSUME NEW n \in Node, NEW t \in AckWorker!Tasks(n) PROVE t \in PropagateTask
    <2>1. ackQueue[n] \in Seq(PropagateTask)
      BY DEF Parts, AckQueueOK
    <2> QED
      BY <1>3, <2>1 DEF AckWorker!Tasks
  <1>4. /\ \A c \in rpc : IsMessage(c.msg)
        /\ \A a \in ackRpc : IsMessage(a.msg)
    BY Types DEF IsMessage
  <1>5. \A r \in Req : IsMessage(Message(r)) /\ Message(r).req = r
    BY Types DEF IsMessage, Message
  <1> QED
    BY <1>1, <1>2, <1>3, <1>4, <1>5

(* The assumptions of the preservation lemmas *)
Step == /\ Parts /\ Parts' /\ HoldersPassed /\ CleanOrder /\ [Next]_vars
        /\ StoreKeeps /\ VersionsStay

(* A task enqueued or taken keeps every queue genuine. *)
LEMMA TasksPassed ==
  ASSUME Step
  PROVE  \A n \in Node : \A t \in Tasks(n)' : TaskPassed(n, t)'
  <1> USE DEF Step
  <1>2. ASSUME NEW n \in Node, NEW t \in Tasks(n) PROVE TaskPassed(n, t)'
    <2>1. TaskPassed(n, t) /\ IsMessage(t.msg)
      BY Messages DEF HoldersPassed
    <2>2. Genuine(t.msg)' /\ Passed(n, t.msg)'
      BY <2>1, MessageStays DEF TaskPassed
    <2> QED
      BY <2>1, <2>2 DEF TaskPassed
  <1>3. UNCHANGED queue => \A n \in Node : Tasks(n)' = Tasks(n)
    BY DEF Tasks
  <1>4. DispatcherTypeOK
    BY Types
  <1>5. ASSUME NEW r \in Req, WriteForward(r)
        PROVE  \A n \in Node : \A t \in Tasks(n)' : TaskPassed(n, t)'
    <2> DEFINE new == [successor |-> Successor(HeadNode), msg |-> Message(r)]
    <2>1. \A n \in Node : \A t \in Tasks(n)' :
             t \in Tasks(n) \/ (n = HeadNode /\ t = new)
      BY <1>4, <1>5, Positions, MessageType, EnqueueEffect DEF WriteForward
    <2>2. /\ Genuine(Message(r)) /\ Passed(HeadNode, Message(r))
          /\ IsMessage(Message(r)) /\ ~IsTail(HeadNode)
      BY <1>5, Messages
      DEF WriteForward, HoldersPassed, WritePassed, Genuine, Message
    <2>3. ASSUME NEW m, m = Message(r) PROVE Genuine(m)' /\ Passed(HeadNode, m)'
      <3>1. IsMessage(m) /\ Genuine(m) /\ Passed(HeadNode, m)
        BY <2>2, <2>3 DEF IsMessage, Genuine, Passed, Kept
      <3> QED
        BY <3>1, MessageStays, Positions
    <2>4. \A n, t : n = HeadNode /\ t = new => TaskPassed(n, t)'
      BY <2>2, <2>3 DEF TaskPassed
    <2> QED
      BY <1>2, <2>1, <2>4
  <1>6. ASSUME NEW c \in rpc, PropagateForward(c)
        PROVE  \A n \in Node : \A t \in Tasks(n)' : TaskPassed(n, t)'
    <2> DEFINE new == [successor |-> Successor(c.to), msg |-> c.msg]
    <2>1. \A n \in Node : \A t \in Tasks(n)' :
             t \in Tasks(n) \/ (n = c.to /\ t = new)
      BY <1>4, <1>6, Positions, Types, EnqueueEffect DEF PropagateForward
    <2>2. /\ Genuine(c.msg) /\ Passed(c.to, c.msg) /\ IsMessage(c.msg)
          /\ c.to \in Node /\ ~IsTail(c.to)
      BY <1>6, Messages, Types DEF PropagateForward, HoldersPassed, CallPassed
    <2>3. \A m : m = c.msg => Genuine(m)' /\ Passed(c.to, m)'
      BY <2>2, MessageStays DEF Genuine, Passed, Kept
    <2>4. \A n, t : n = c.to /\ t = new => TaskPassed(n, t)'
      BY <2>2, <2>3 DEF TaskPassed
    <2> QED
      BY <1>2, <2>1, <2>4
  <1>7. ASSUME NEW n \in Node, Send(n)
        PROVE  \A p \in Node : Tasks(p)' \subseteq Tasks(p)
    BY <1>4, <1>7, WorkerSendEffect DEF Send
  <1>8. ASSUME NEW c \in rpc, CallFails(c) PROVE UNCHANGED queue
    BY <1>8 DEF CallFails, RpcLost, RpcAbandoned
  <1>9. CASE UNCHANGED queue
    BY <1>2, <1>3, <1>9
  <1> QED
    BY <1>2, <1>5, <1>6, <1>7, <1>8, <1>9, ReadsType
    DEF Next, WriteRejected, WriteAssign, WriteStep, Handling, WriteRecord, WriteCommit,
        WriteAck, PropagateStep, PropagateRecord, PropagateCommit, PropagateAck,
        PropagateAckUpstream, SendAck, AckStep, AckMarkClean, AckForward, AckCallFails,
        UnchangedByRead, Terminating, vars

(* A call started, advanced or failed keeps every call genuine. *)
LEMMA CallsPassed ==
  ASSUME Step
  PROVE  \A d \in rpc' : CallPassed(d)'
  <1> USE DEF Step
  <1>d. DispatcherTypeOK
    BY Types
  <1>n. \A c \in rpc : /\ CallPassed(c) /\ IsMessage(c.msg)
                       /\ c.from \in Node /\ c.to \in Node
    BY Messages, Types DEF HoldersPassed
  <1>2. ASSUME NEW c \in rpc, NEW d, d.from = c.from, d.to = c.to, d.msg = c.msg
        PROVE  /\ ~IsTail(d.from) /\ d.to = Successor(d.from)
               /\ Genuine(d.msg)' /\ Passed(d.from, d.msg)'
               /\ c.pc # "sent" => Passed(d.to, d.msg)'
               /\ c.pc \in {"committed", "acked"} => IsTail(d.to) /\ CleanAt(d.to, d.msg)'
    <2>1. /\ CallPassed(c) /\ IsMessage(d.msg) /\ d.from \in Node /\ d.to \in Node
      BY <1>2, <1>n
    <2>2. /\ Genuine(d.msg) /\ Passed(d.from, d.msg)
          /\ c.pc # "sent" => Passed(d.to, d.msg)
          /\ c.pc \in {"committed", "acked"} => IsTail(d.to) /\ CleanAt(d.to, d.msg)
          /\ ~IsTail(d.from) /\ d.to = Successor(d.from)
      BY <1>2, <2>1 DEF CallPassed
    <2> QED
      BY <2>1, <2>2, MessageStays
  <1>3. ASSUME NEW c \in rpc, NEW d, d.from = c.from, d.to = c.to, d.msg = c.msg,
               d.pc = c.pc
        PROVE  CallPassed(d)'
    BY <1>2, <1>3 DEF CallPassed
  <1>4. \A c \in rpc : CallPassed(c)'
    BY <1>3
  <1>5. ASSUME NEW n \in Node, Send(n) PROVE \A d \in rpc' : CallPassed(d)'
    <2>1. PICK t \in Tasks(n) :
             rpc' = rpc \cup {[from |-> n, to |-> t.successor, msg |-> t.msg,
                               pc |-> "sent", held |-> TRUE]}
      BY <1>5, <1>d, WorkerSendEffect DEF Send
    <2>2. TaskPassed(n, t) /\ IsMessage(t.msg)
      BY Messages DEF HoldersPassed
    <2>3. Genuine(t.msg)' /\ Passed(n, t.msg)'
      BY <2>2, MessageStays DEF TaskPassed
    <2>4. \A d : d = [from |-> n, to |-> t.successor, msg |-> t.msg,
                      pc |-> "sent", held |-> TRUE] => CallPassed(d)'
      BY <2>2, <2>3 DEF TaskPassed, CallPassed
    <2> QED
      BY <1>4, <2>1, <2>4
  <1>6. ASSUME NEW c \in rpc, PropagateRecord(c)
        PROVE  \A d \in rpc' : CallPassed(d)'
    <2>1. \A d \in rpc' : \/ d \in rpc
                          \/ /\ d.from = c.from /\ d.to = c.to
                             /\ d.msg = c.msg /\ d.pc = "recorded"
      BY <1>6, <1>d, AdvanceEffect DEF PropagateRecord
    <2>2. Passed(c.to, c.msg)'
      BY <1>6, <1>n, PropagateTouches, ArrivesPassed
    <2>3. ASSUME NEW d, d.from = c.from, d.to = c.to, d.msg = c.msg, d.pc = "recorded"
          PROVE  CallPassed(d)'
      BY <1>2, <2>2, <2>3 DEF CallPassed
    <2> QED
      BY <1>4, <2>1, <2>3
  <1>7. ASSUME NEW c \in rpc, PropagateCommit(c)
        PROVE  \A d \in rpc' : CallPassed(d)'
    <2>1. \A d \in rpc' : \/ d \in rpc
                          \/ /\ d.from = c.from /\ d.to = c.to
                             /\ d.msg = c.msg /\ d.pc = "committed"
      BY <1>7, <1>d, AdvanceEffect DEF PropagateCommit
    <2>2. CleanAt(c.to, c.msg)' /\ IsTail(c.to) /\ c.pc = "recorded"
      BY <1>7, <1>n, PropagateTouches, BecomesCleanAt DEF PropagateCommit
    <2>3. ASSUME NEW d, d.from = c.from, d.to = c.to, d.msg = c.msg, d.pc = "committed"
          PROVE  CallPassed(d)'
      BY <1>2, <2>2, <2>3 DEF CallPassed
    <2> QED
      BY <1>4, <2>1, <2>3
  <1>8. ASSUME NEW c \in rpc, PropagateAck(c)
        PROVE  \A d \in rpc' : CallPassed(d)'
    <2>1. \A d \in rpc' : \/ d \in rpc
                          \/ /\ d.from = c.from /\ d.to = c.to
                             /\ d.msg = c.msg /\ d.pc = "acked"
      BY <1>8, <1>d, AdvanceEffect DEF PropagateAck
    <2>2. c.pc = "committed"
      BY <1>8 DEF PropagateAck
    <2>3. ASSUME NEW d, d.from = c.from, d.to = c.to, d.msg = c.msg, d.pc = "acked"
          PROVE  CallPassed(d)'
      BY <1>2, <2>2, <2>3 DEF CallPassed
    <2> QED
      BY <1>4, <2>1, <2>3
  <1>9. ASSUME NEW c \in rpc, PropagateForward(c) \/ PropagateAckUpstream(c)
        PROVE  \A d \in rpc' : CallPassed(d)'
    BY <1>4, <1>9 DEF PropagateForward, PropagateAckUpstream, Return
  <1>10. ASSUME NEW c \in rpc, CallFails(c) PROVE \A d \in rpc' : CallPassed(d)'
    <2>1. \A d \in rpc' : \E b \in rpc :
             d.from = b.from /\ d.to = b.to /\ d.msg = b.msg /\ d.pc = b.pc
      BY <1>10, <1>d, CallFailsEffect DEF CallFails
    <2> QED
      BY <1>3, <2>1
  <1>11. CASE UNCHANGED rpc
    BY <1>4, <1>11
  <1> QED
    BY <1>5, <1>6, <1>7, <1>8, <1>9, <1>10, <1>11, ReadsType
    DEF Next, WriteRejected, WriteAssign, WriteStep, Handling, WriteRecord, WriteForward,
        WriteCommit, WriteAck, PropagateStep, SendAck, AckStep, AckMarkClean, AckForward,
        AckCallFails, UnchangedByRead, Terminating, vars

(* An Ack enqueued, by the tail or by a node that has got it, is genuine.  *)
LEMMA AckTasksPassed ==
  ASSUME Step
  PROVE  \A n \in Node : \A t \in AckWorker!Tasks(n)' : AckTaskPassed(n, t)'
  <1> USE DEF Step
  <1>d. AckDispatcherOK /\ TailNode \in Node
    BY Types, Positions
  <1>2. ASSUME NEW n \in Node, NEW t, AckTaskPassed(n, t), IsMessage(t.msg)
        PROVE  AckTaskPassed(n, t)'
    BY <1>2, <1>d, MessageStays DEF AckTaskPassed
  <1>3. ASSUME NEW n \in Node, NEW t \in AckWorker!Tasks(n) PROVE AckTaskPassed(n, t)'
    BY <1>2, <1>3, Messages DEF HoldersPassed
  <1>4. UNCHANGED ackQueue => \A n \in Node : AckWorker!Tasks(n)' = AckWorker!Tasks(n)
    BY DEF AckWorker!Tasks
  <1>5. ASSUME NEW n \in Node, NEW m \in PropagateRequest, IsMessage(m),
               Genuine(m), Passed(TailNode, m), CleanAt(n, m),
               AckWorker!Enqueue(n, Predecessor(n), m)
        PROVE  \A p \in Node : \A t \in AckWorker!Tasks(p)' : AckTaskPassed(p, t)'
    <2> DEFINE new == [successor |-> Predecessor(n), msg |-> m]
    <2>1. \A p \in Node : \A t \in AckWorker!Tasks(p)' :
             t \in AckWorker!Tasks(p) \/ (p = n /\ t = new)
      BY <1>5, <1>d, AckEnqueueEffect DEF AckTasks
    <2>2. Genuine(m)' /\ Passed(TailNode, m)' /\ CleanAt(n, m)'
      BY <1>5, <1>d, MessageStays
    <2>3. \A p, t : p = n /\ t = new => AckTaskPassed(p, t)'
      BY <2>2 DEF AckTaskPassed
    <2> QED
      BY <1>3, <2>1, <2>3
  <1>6. ASSUME NEW c \in rpc, PropagateAckUpstream(c)
        PROVE  \A p \in Node : \A t \in AckWorker!Tasks(p)' : AckTaskPassed(p, t)'
    <2>1. /\ Genuine(c.msg) /\ Passed(c.to, c.msg) /\ CleanAt(c.to, c.msg)
          /\ IsTail(c.to) /\ c.to = TailNode
          /\ IsMessage(c.msg) /\ c.msg \in PropagateRequest /\ c.to \in Node
      BY <1>6, Messages, Types
      DEF PropagateAckUpstream, HoldersPassed, CallPassed, IsTail
    <2>2. AckWorker!Enqueue(c.to, Predecessor(c.to), c.msg)
      BY <1>6 DEF PropagateAckUpstream, EnqueueAck
    <2> QED
      BY <1>5, <2>1, <2>2
  <1>7. ASSUME NEW a \in ackRpc, AckForward(a)
        PROVE  \A p \in Node : \A t \in AckWorker!Tasks(p)' : AckTaskPassed(p, t)'
    <2>1. /\ Genuine(a.msg) /\ Passed(TailNode, a.msg) /\ CleanAt(a.to, a.msg)
          /\ IsMessage(a.msg) /\ a.msg \in PropagateRequest /\ a.to \in Node
      BY <1>7, Messages, Types DEF AckForward, HoldersPassed, AckCallPassed
    <2>2. UNCHANGED ackQueue \/ AckWorker!Enqueue(a.to, Predecessor(a.to), a.msg)
      BY <1>7 DEF AckForward
    <2> QED
      BY <1>3, <1>4, <1>5, <2>1, <2>2
  <1>8. ASSUME NEW n \in Node, SendAck(n)
        PROVE  \A p \in Node : AckWorker!Tasks(p)' \subseteq AckWorker!Tasks(p)
    BY <1>8, <1>d, AckSendEffect DEF SendAck, AckTasks
  <1>9. ASSUME NEW a \in ackRpc, AckCallFails(a) PROVE UNCHANGED ackQueue
    BY <1>9, <1>d, AckCallFailsEffect DEF AckCallFails
  <1>10. CASE UNCHANGED ackQueue
    BY <1>3, <1>4, <1>10
  <1> QED
    BY <1>3, <1>6, <1>7, <1>8, <1>9, <1>10, ReadsType
    DEF Next, WriteRejected, WriteAssign, WriteStep, Handling, WriteRecord, WriteForward,
        WriteCommit, WriteAck, Send, PropagateStep, PropagateRecord, PropagateForward,
        PropagateCommit, PropagateAck, CallFails, AckStep, AckMarkClean,
        UnchangedByRead, ackVars, Terminating, vars

(* An Ack call started, advanced or failed stays genuine. *)
LEMMA AckCallsPassed ==
  ASSUME Step
  PROVE  \A b \in ackRpc' : AckCallPassed(b)'
  <1> USE DEF Step
  <1>d. AckDispatcherOK /\ TailNode \in Node
    BY Types, Positions
  <1>n. \A a \in ackRpc : /\ AckCallPassed(a) /\ IsMessage(a.msg)
                          /\ a.from \in Node /\ a.to \in Node
    BY Messages, Types DEF HoldersPassed
  <1>2. ASSUME NEW a \in ackRpc, NEW b, b.from = a.from, b.to = a.to, b.msg = a.msg
        PROVE  /\ b.to = Predecessor(b.from)
               /\ Genuine(b.msg)' /\ Passed(TailNode, b.msg)' /\ CleanAt(b.from, b.msg)'
               /\ a.pc # "sent" => CleanAt(b.to, b.msg)'
    <2>1. AckCallPassed(a) /\ IsMessage(b.msg) /\ b.from \in Node /\ b.to \in Node
      BY <1>2, <1>n
    <2>2. /\ Genuine(b.msg) /\ Passed(TailNode, b.msg) /\ CleanAt(b.from, b.msg)
          /\ a.pc # "sent" => CleanAt(b.to, b.msg)
          /\ b.to = Predecessor(b.from)
      BY <1>2, <2>1 DEF AckCallPassed
    <2> QED
      BY <1>d, <2>1, <2>2, MessageStays
  <1>3. ASSUME NEW a \in ackRpc, NEW b, b.from = a.from, b.to = a.to, b.msg = a.msg,
               b.pc = a.pc
        PROVE  AckCallPassed(b)'
    BY <1>2, <1>3 DEF AckCallPassed
  <1>4. \A a \in ackRpc : AckCallPassed(a)'
    BY <1>3
  <1>5. ASSUME NEW n \in Node, SendAck(n) PROVE \A b \in ackRpc' : AckCallPassed(b)'
    <2>1. PICK t \in AckWorker!Tasks(n) :
             ackRpc' = ackRpc \cup {[from |-> n, to |-> t.successor, msg |-> t.msg,
                                     pc |-> "sent", held |-> TRUE]}
      BY <1>5, <1>d, AckSendEffect DEF SendAck, AckTasks
    <2>2. AckTaskPassed(n, t) /\ IsMessage(t.msg)
      BY Messages DEF HoldersPassed
    <2>3. Genuine(t.msg)' /\ Passed(TailNode, t.msg)' /\ CleanAt(n, t.msg)'
      BY <1>d, <2>2, MessageStays DEF AckTaskPassed
    <2>4. \A b : b = [from |-> n, to |-> t.successor, msg |-> t.msg,
                      pc |-> "sent", held |-> TRUE] => AckCallPassed(b)'
      BY <2>2, <2>3 DEF AckTaskPassed, AckCallPassed
    <2> QED
      BY <1>4, <2>1, <2>4
  <1>6. ASSUME NEW a \in ackRpc, AckMarkClean(a)
        PROVE  \A b \in ackRpc' : AckCallPassed(b)'
    <2>1. \A b \in ackRpc' : \/ b \in ackRpc
                             \/ /\ b.from = a.from /\ b.to = a.to
                                /\ b.msg = a.msg /\ b.pc = "committed"
      BY <1>6, <1>d, AckAdvanceEffect DEF AckMarkClean
    <2>2. CleanAt(a.to, a.msg)'
      BY <1>6, <1>n, AckTouches, BecomesCleanAt
    <2>3. ASSUME NEW b, b.from = a.from, b.to = a.to, b.msg = a.msg, b.pc = "committed"
          PROVE  AckCallPassed(b)'
      BY <1>2, <2>2, <2>3 DEF AckCallPassed
    <2> QED
      BY <1>4, <2>1, <2>3
  <1>7. ASSUME NEW a \in ackRpc, AckForward(a) PROVE \A b \in ackRpc' : AckCallPassed(b)'
    BY <1>4, <1>7 DEF AckForward, AckWorker!Return
  <1>8. ASSUME NEW a \in ackRpc, AckCallFails(a)
        PROVE  \A b \in ackRpc' : AckCallPassed(b)'
    <2>1. \A d \in ackRpc' : \E b \in ackRpc :
             d.from = b.from /\ d.to = b.to /\ d.msg = b.msg /\ d.pc = b.pc
      BY <1>8, <1>d, AckCallFailsEffect DEF AckCallFails
    <2> QED
      BY <1>3, <2>1
  <1>9. CASE UNCHANGED ackRpc
    BY <1>4, <1>9
  <1> QED
    BY <1>5, <1>6, <1>7, <1>8, <1>9, ReadsType
    DEF Next, WriteRejected, WriteAssign, WriteStep, Handling, WriteRecord, WriteForward,
        WriteCommit, WriteAck, Send, PropagateStep, PropagateRecord, PropagateForward,
        PropagateCommit, PropagateAck, PropagateAckUpstream, EnqueueAck, CallFails,
        AckStep, UnchangedByRead, ackVars, Terminating, vars

(* A step of handle_write does what its program counter then says. *)
LEMMA WritesPassed ==
  ASSUME Step
  PROVE  \A r \in Req : WritePassed(r)'
  <1> USE DEF Step
  <1>1. ASSUME NEW r \in Req, Message(r)' = Message(r)
        PROVE  /\ Passed(HeadNode, Message(r)) => Passed(HeadNode, Message(r))'
               /\ CleanAt(HeadNode, Message(r)) => CleanAt(HeadNode, Message(r))'
    <2>1. IsMessage(Message(r))
      BY Messages
    <2>2. \A m : m = Message(r) =>
             /\ Passed(HeadNode, m) => Passed(HeadNode, m)'
             /\ CleanAt(HeadNode, m) => CleanAt(HeadNode, m)'
      BY <2>1, MessageStays, Positions
    <2> QED
      BY <1>1, <2>2 DEF Passed, CleanAt, Kept
  <1>2. ASSUME NEW r \in Req, write'[r] = write[r] PROVE WritePassed(r)'
    <2>1. WritePassed(r) /\ Message(r)' = Message(r)
      BY <1>2 DEF HoldersPassed, Message
    <2> QED
      BY <1>1, <1>2, <2>1 DEF WritePassed, IsTail, HeadNode, TailNode
  <1>3. ASSUME NEW r \in Req, NEW pc, WriteAt(r, pc),
               \A q \in Req : q = r => WritePassed(q)'
        PROVE  \A q \in Req : WritePassed(q)'
    BY <1>2, <1>3 DEF WriteAt, Parts, WriteOK
  <1>4. ASSUME NEW r \in Req, NEW n \in Node, WriteAssign(r, n)
        PROVE  \A q \in Req : WritePassed(q)'
    <2>1. write' = [write EXCEPT ![r] =
                      [pc |-> "assigned", version |-> store[n][KeyOf[r]].next + 1]]
      BY <1>4, AssignTouches
    <2>2. store[n][KeyOf[r]].next \in Nat
      BY Types, StoreType
    <2>3. WritePassed(r)'
      BY <2>1, <2>2 DEF WritePassed, Parts, WriteOK
    <2> QED
      BY <1>2, <2>1, <2>3 DEF Parts, WriteOK
  <1>5. ASSUME NEW r \in Req, NEW n \in Node, WriteRejected(r, n)
        PROVE  \A q \in Req : WritePassed(q)'
    <2>1. WritePassed(r)'
      BY <1>5 DEF WriteRejected, WriteAt, WritePassed, HoldersPassed, Parts, WriteOK
    <2> QED
      BY <1>3, <1>5, <2>1 DEF WriteRejected
  <1>6. ASSUME NEW r \in Req, WriteRecord(r)
        PROVE  \A q \in Req : WritePassed(q)'
    <2>1. /\ write'[r].pc = "recorded" /\ write'[r].version = write[r].version
          /\ write[r].pc = "assigned" /\ Message(r)' = Message(r)
      BY <1>6 DEF WriteRecord, WriteAt, Message, Parts, WriteOK
    <2>2. Arrives(HeadNode, r, write[r].version) /\ IsMessage(Message(r))
      BY <1>6, WriteTouches, Messages
    <2>3. \A m : m = Message(r) => Passed(HeadNode, m)'
      BY <2>2, ArrivesPassed, Positions DEF Message
    <2>4. Passed(HeadNode, Message(r))'
      BY <2>1, <2>3 DEF Passed, Kept
    <2>5. WritePassed(r)'
      BY <2>1, <2>4 DEF WritePassed, HoldersPassed
    <2> QED
      BY <1>3, <1>6, <2>5 DEF WriteRecord
  <1>7. ASSUME NEW r \in Req, WriteForward(r) \/ WriteCommit(r) \/ WriteAck(r)
        PROVE  \A q \in Req : WritePassed(q)'
    <2>1. /\ write'[r].pc \in {"committed", "returned"}
          /\ write'[r].version = write[r].version
          /\ write[r].pc \in {"recorded", "committed"}
          /\ Message(r)' = Message(r)
          /\ write'[r].pc = "committed" => WriteCommit(r)
      BY <1>7 DEF WriteForward, WriteCommit, WriteAck, WriteAt, Parts, WriteOK, Message
    <2>2. WritePassed(r)
      BY DEF HoldersPassed
    <2>3. Passed(HeadNode, Message(r))'
      BY <1>1, <2>1, <2>2 DEF WritePassed
    <2>4. WriteCommit(r) => IsTail(HeadNode) /\ CleanAt(HeadNode, Message(r))'
      <3>1. WriteCommit(r) =>
               store'[HeadNode][KeyOf[r]].committed >= write[r].version
        BY WriteTouches DEF BecomesClean
      <3> QED
        BY <2>1, <3>1 DEF WriteCommit, CleanAt, Message
    <2>5. WritePassed(r)'
      BY <2>1, <2>2, <2>3, <2>4 DEF WritePassed, IsTail, HeadNode, TailNode
    <2> QED
      BY <1>3, <1>7, <2>5 DEF WriteForward, WriteCommit, WriteAck
  <1>8. CASE UNCHANGED write
    BY <1>2, <1>8
  <1> QED
    BY <1>4, <1>5, <1>6, <1>7, <1>8, ReadsType
    DEF Next, WriteStep, Handling, Send, SendAck, PropagateStep, PropagateRecord,
        PropagateForward, PropagateCommit, PropagateAck, PropagateAckUpstream, CallFails,
        AckStep, AckMarkClean, AckForward, AckCallFails, UnchangedByRead, Terminating,
        vars

-----------------------------------------------------------------------------
(* The other conjuncts about the store *)

(* The fields of a key state before and after a step *)
LEMMA StepFields ==
  ASSUME Step
  PROVE  \A n \in Node, k \in Key :
            /\ store[n][k].next \in Nat /\ store'[n][k].next \in Nat
            /\ store[n][k].seen \in Nat /\ store'[n][k].seen \in Nat
            /\ store[n][k].committed \in Nat /\ store'[n][k].committed \in Nat
            /\ store'[n][k].next >= store[n][k].next
            /\ store'[n][k].seen >= store[n][k].seen
            /\ store'[n][k].committed >= store[n][k].committed
  <1>1. \A n \in Node, k \in Key : store[n][k] \in KeyState /\ store'[n][k] \in KeyState
    BY DEF Step, Parts, StoreOK
  <1> QED
    BY <1>1, KeyStateFields DEF Step, StoreKeeps, KeptOrAbove

(* An Ack is above the clean version of a node only where the nodes after  *)
(* it have that version or a newer one clean.                              *)
LEMMA CleanOrderKept ==
  ASSUME Step
  PROVE  CleanOrder'
  <1> USE DEF Step
  <1>1. ASSUME \A n \in Node, k \in Key : store'[n][k].committed = store[n][k].committed
        PROVE  CleanOrder'
    BY <1>1 DEF CleanOrder
  <1>2. ASSUME NEW n \in Node, NEW r \in Req, Arrives(n, r, write[r].version)
        PROVE  CleanOrder'
    BY <1>1, <1>2 DEF Arrives, Touched
  <1>3. ASSUME NEW n \in Node, NEW r \in Req, BecomesClean(n, r, write[r].version)
        PROVE  CleanOrder'
    <2> DEFINE v == write[r].version
    <2> SUFFICES ASSUME NEW k \in Key, NEW i \in Node, NEW j \in Node, i < j
                 PROVE  store'[i][k].committed <= store'[j][k].committed
      BY DEF CleanOrder
    <2>1. /\ store[i][k].committed <= store[j][k].committed
          /\ store'[j][k].committed >= store[j][k].committed
          /\ store[i][k].committed \in Nat /\ store'[i][k].committed \in Nat
          /\ store[j][k].committed \in Nat /\ store'[j][k].committed \in Nat
          /\ v \in Nat
      BY StepFields, Types DEF CleanOrder
    <2>2. CASE i # n \/ k # KeyOf[r]
      <3>1. store'[i][k] = store[i][k]
        BY <1>3, <2>2 DEF BecomesClean, Touched
      <3> HIDE DEF v
      <3> QED
        BY <2>1, <3>1
    <2>3. CASE i = n /\ k = KeyOf[r]
      <3>1. /\ store'[i][k].committed \in {store[i][k].committed, v}
            /\ store[j][k].committed >= v
        BY <1>3, <2>3 DEF BecomesClean, Touched
      <3> HIDE DEF v
      <3> QED
        BY <2>1, <3>1
    <2> QED
      BY <2>2, <2>3
  <1>4. ASSUME NEW r \in Req, NEW n \in Node, WriteAssign(r, n) PROVE CleanOrder'
    BY <1>1, <1>4, AssignTouches
  <1> QED
    BY <1>1, <1>2, <1>3, <1>4, StoreSteps

(* What the tail commits every node has kept. *)
LEMMA TailKeptKept ==
  ASSUME Step, TailKept
  PROVE  TailKept'
  <1> USE DEF Step
  <1>t. TailNode \in Node
    BY Positions
  <1> SUFFICES ASSUME NEW n \in Node, NEW k \in Key
               PROVE  KeptNext(n, k, store'[TailNode][k].committed)
    BY DEF TailKept, Kept, KeptNext, TailNode
  <1>1. CASE store'[TailNode][k].committed = store[TailNode][k].committed
    <2>1. Kept(n, k, store[TailNode][k].committed) /\ store[TailNode][k].committed \in Nat
      BY <1>t, StepFields DEF TailKept
    <2> QED
      BY <1>1, <2>1, KeptStays
  <1>2. ASSUME NEW m \in Node, NEW r \in Req, BecomesClean(m, r, write[r].version),
               store'[TailNode][k].committed # store[TailNode][k].committed
        PROVE  KeptNext(n, k, store'[TailNode][k].committed)
    <2> DEFINE v == write[r].version
    <2>1. k = KeyOf[r] /\ store'[TailNode][k].committed = v /\ Kept(n, k, v) /\ v \in Nat
      BY <1>t, <1>2, Types DEF BecomesClean, Touched
    <2> HIDE DEF v
    <2> QED
      BY <2>1, KeptStays
  <1>3. ASSUME NEW m \in Node, NEW r \in Req, Arrives(m, r, write[r].version)
        PROVE  store'[TailNode][k].committed = store[TailNode][k].committed
    BY <1>t, <1>3 DEF Arrives, Touched
  <1>4. ASSUME NEW r \in Req, NEW m \in Node, WriteAssign(r, m)
        PROVE  store'[TailNode][k].committed = store[TailNode][k].committed
    BY <1>t, <1>4, AssignTouches
  <1> QED
    BY <1>1, <1>2, <1>3, <1>4, StoreSteps

(* The tail acknowledges only what it has committed. *)
LEMMA AckedKept ==
  ASSUME Step, AckedCommitted
  PROVE  AckedCommitted'
  <1> USE DEF Step
  <1>1. \A a \in acked : IsMessage(a)
    BY DEF Parts, AckedOK, IsMessage
  <1>2. \A a \in acked : Genuine(a)' /\ Committed(a)'
    BY <1>1, MessageStays DEF AckedCommitted
  <1>3. CASE UNCHANGED acked
    BY <1>2, <1>3 DEF AckedCommitted
  <1>4. ASSUME NEW m \in PropagateRequest, IsMessage(m), SendClientAck(m),
               Genuine(m), Committed(m)
        PROVE  AckedCommitted'
    <2>1. acked' \subseteq acked \cup {AckRequest(m)}
      BY <1>4, SendClientAckType
    <2>2. \A a : a = AckRequest(m) =>
             IsMessage(a) /\ Genuine(a) /\ Committed(a)
      BY <1>4 DEF AckRequest, IsMessage, Genuine, Committed
    <2>3. \A a : a = AckRequest(m) => Genuine(a)' /\ Committed(a)'
      BY <2>2, MessageStays
    <2> QED
      BY <1>2, <2>1, <2>3 DEF AckedCommitted
  <1>5. ASSUME NEW r \in Req, WriteAck(r) PROVE AckedCommitted'
    <2>1. /\ IsMessage(Message(r)) /\ Message(r) \in PropagateRequest
          /\ SendClientAck(Message(r)) /\ Genuine(Message(r))
          /\ IsTail(HeadNode) /\ CleanAt(HeadNode, Message(r))
      BY <1>5, Messages, MessageType
      DEF WriteAck, HoldersPassed, WritePassed, Genuine, Message
    <2>2. Committed(Message(r))
      BY <2>1 DEF Committed, CleanAt, IsTail
    <2> QED
      BY <1>4, <2>1, <2>2
  <1>6. ASSUME NEW c \in rpc, PropagateAck(c) PROVE AckedCommitted'
    <2>1. /\ IsMessage(c.msg) /\ c.msg \in PropagateRequest
          /\ SendClientAck(c.msg) /\ Genuine(c.msg)
          /\ IsTail(c.to) /\ CleanAt(c.to, c.msg)
      BY <1>6, Messages, Types DEF PropagateAck, HoldersPassed, CallPassed
    <2>2. Committed(c.msg)
      BY <2>1 DEF Committed, CleanAt, IsTail
    <2> QED
      BY <1>4, <2>1, <2>2
  <1> QED
    BY <1>3, <1>5, <1>6, ReadsType
    DEF Next, WriteRejected, WriteAssign, WriteStep, Handling, WriteRecord, WriteForward,
        WriteCommit, Send, SendAck, PropagateStep, PropagateRecord, PropagateForward,
        PropagateCommit, PropagateAckUpstream, CallFails, AckStep, AckMarkClean,
        AckForward, AckCallFails, UnchangedByRead, Terminating, vars

(* Only WriteAssign gives out versions. *)
LEMMA VersionsChange ==
  ASSUME Step
  PROVE  \/ \A r \in Req : write'[r].version = write[r].version
         \/ \E r \in Req, n \in Node : WriteAssign(r, n)
  <1> USE DEF Step
  <1>1. \A r \in Req : \A pc : WriteAt(r, pc) =>
           \A q \in Req : write'[q].version = write[q].version
    BY DEF WriteAt, Parts, WriteOK
  <1> QED
    BY <1>1, ReadsType
    DEF Next, WriteRejected, WriteStep, Handling, WriteRecord, WriteForward,
        WriteCommit, WriteAck, Send, SendAck, PropagateStep, PropagateRecord,
        PropagateForward, PropagateCommit, PropagateAck, PropagateAckUpstream, CallFails,
        AckStep, AckMarkClean, AckForward, AckCallFails, UnchangedByRead, Terminating,
        vars

LEMMA BelowNextKept ==
  ASSUME Step, VersionsBelowNext
  PROVE  VersionsBelowNext'
  <1> USE DEF Step
  <1>1. \A r \in Req : /\ write[r].version \in Nat
                       /\ store[HeadNode][KeyOf[r]].next \in Nat
                       /\ store'[HeadNode][KeyOf[r]].next \in Nat
                       /\ store'[HeadNode][KeyOf[r]].next
                             >= store[HeadNode][KeyOf[r]].next
                       /\ write[r].version <= store[HeadNode][KeyOf[r]].next
    BY Types, StepFields, Positions DEF VersionsBelowNext
  <1>2. CASE \A r \in Req : write'[r].version = write[r].version
    BY <1>1, <1>2 DEF VersionsBelowNext
  <1>3. ASSUME NEW r \in Req, NEW n \in Node, WriteAssign(r, n) PROVE VersionsBelowNext'
    <2>1. /\ n = HeadNode
          /\ write' = [write EXCEPT ![r] =
                         [pc |-> "assigned", version |-> store[n][KeyOf[r]].next + 1]]
          /\ store'[n][KeyOf[r]].next = store[n][KeyOf[r]].next + 1
      BY <1>3, AssignTouches
    <2>2. /\ \A q \in Req : q # r => write'[q].version = write[q].version
          /\ write'[r].version = store'[HeadNode][KeyOf[r]].next
      BY <2>1 DEF Parts, WriteOK
    <2> QED
      BY <1>1, <2>2 DEF VersionsBelowNext
  <1> QED
    BY <1>2, <1>3, VersionsChange

(* The head's counter moves to a version just assigned, or to one received *)
(* in a message, which is genuine.                                         *)
LEMMA NextAssignedKept ==
  ASSUME Step, NextIsAssigned
  PROVE  NextIsAssigned'
  <1> USE DEF Step
  <1> SUFFICES ASSUME NEW k \in Key, store'[HeadNode][k].next # 0
               PROVE  \E r \in Req : /\ KeyOf[r] = k
                                     /\ write'[r].version = store'[HeadNode][k].next
    BY DEF NextIsAssigned
  <1>2. CASE store'[HeadNode][k].next = store[HeadNode][k].next
    BY <1>2 DEF NextIsAssigned, VersionsStay
  <1>3. ASSUME NEW r \in Req, NEW n \in Node, WriteAssign(r, n), k = KeyOf[r]
        PROVE  write'[r].version = store'[HeadNode][k].next
    BY <1>3, AssignTouches DEF Parts, WriteOK
  <1>4. ASSUME NEW r \in Req, NEW n \in Node, WriteAssign(r, n), k # KeyOf[r]
        PROVE  store'[HeadNode][k].next = store[HeadNode][k].next
    BY <1>4, AssignTouches, Positions
  <1>5. ASSUME NEW n \in Node, NEW r \in Req, write[r].version # 0,
               \/ Arrives(n, r, write[r].version)
               \/ BecomesClean(n, r, write[r].version),
               store'[HeadNode][k].next # store[HeadNode][k].next
        PROVE  KeyOf[r] = k /\ write'[r].version = store'[HeadNode][k].next
    BY <1>5, Positions DEF Arrives, BecomesClean, Touched, VersionsStay
  <1> QED
    BY <1>2, <1>3, <1>4, <1>5, StoreSteps

(* HoldsWrite, in the next state *)
HoldsNext(k, x, v) ==
    v # 0 => x \in Req /\ KeyOf[x] = k /\ write'[x].version = v

LEMMA HoldsStays ==
  ASSUME Step
  PROVE  \A k, x, v : HoldsWrite(k, x, v) => HoldsNext(k, x, v)
  BY DEF Step, HoldsWrite, HoldsNext, VersionsStay

LEMMA PendingKept ==
  ASSUME Step, PendingIsGenuine
  PROVE  PendingIsGenuine'
  <1> USE DEF Step
  <1> SUFFICES ASSUME NEW m \in Node, NEW k \in Key, NEW p \in store'[m][k].pending
               PROVE  p.version # 0 /\ HoldsNext(k, p.value, p.version)
    BY DEF PendingIsGenuine, HoldsWrite, HoldsNext
  <1>1. CASE p \in store[m][k].pending
    BY <1>1, HoldsStays DEF PendingIsGenuine
  <1>2. ASSUME NEW n \in Node, NEW r \in Req, write[r].version # 0,
               Touched(n, KeyOf[r], r, write[r].version), p \notin store[m][k].pending
        PROVE  p.version # 0 /\ HoldsNext(k, p.value, p.version)
    <2>1. k = KeyOf[r] /\ p.version = write[r].version /\ p.value = r
      BY <1>2 DEF Touched
    <2> QED
      BY <1>2, <2>1 DEF HoldsNext, VersionsStay
  <1>3. ASSUME NEW r \in Req, NEW n \in Node, WriteAssign(r, n)
        PROVE  p \in store[m][k].pending
    BY <1>3, AssignTouches
  <1> QED
    BY <1>1, <1>2, <1>3, StoreSteps DEF Arrives, BecomesClean

LEMMA OneWriteKept ==
  ASSUME Step, VersionsBelowNext, VersionNamesOneWrite, PendingIsGenuine
  PROVE  VersionNamesOneWrite'
  <1> USE DEF Step
  <1> DEFINE Unique(f) == \A q, r \in Req :
                 KeyOf[q] = KeyOf[r] /\ f[q].version = f[r].version
                 /\ f[q].version # 0 => q = r
             Holding(s) == \A n \in Node, k \in Key :
                 /\ HoldsNext(k, s[n][k].seenValue, s[n][k].seen)
                 /\ HoldsNext(k, s[n][k].committedValue, s[n][k].committed)
  <1>1. Unique(write')
    <2>1. CASE \A r \in Req : write'[r].version = write[r].version
      BY <2>1 DEF VersionNamesOneWrite
    <2>2. ASSUME NEW r \in Req, NEW n \in Node, WriteAssign(r, n) PROVE Unique(write')
      <3>1. store[HeadNode][KeyOf[r]].next \in Nat
        BY Types, StepFields, Positions
      <3>2. /\ \A q \in Req : q # r => write'[q].version = write[q].version
            /\ write'[r].version = store[HeadNode][KeyOf[r]].next + 1
        BY <2>2, AssignTouches DEF Parts, WriteOK
      <3>3. \A q \in Req : /\ write[q].version \in Nat
                           /\ KeyOf[q] = KeyOf[r] =>
                                write[q].version <= store[HeadNode][KeyOf[r]].next
        BY Types DEF VersionsBelowNext
      <3>4. \A q \in Req : KeyOf[q] = KeyOf[r] /\ q # r
                              => write'[q].version # write'[r].version
        BY <3>1, <3>2, <3>3
      <3> QED
        BY <3>2, <3>4 DEF VersionNamesOneWrite
    <2> QED
      BY <2>1, <2>2, VersionsChange
  <1>2. Holding(store)
    BY HoldsStays DEF VersionNamesOneWrite
  <1>3. Holding(store')
    <2>1. CASE UNCHANGED store
      BY <1>2, <2>1
    <2>2. ASSUME NEW r \in Req, NEW n \in Node, WriteAssign(r, n) PROVE Holding(store')
      BY <1>2, <2>2, AssignTouches
    <2>3. ASSUME NEW n \in Node, NEW r \in Req, write[r].version # 0,
                 Touched(n, KeyOf[r], r, write[r].version)
          PROVE  Holding(store')
      <3>1. HoldsNext(KeyOf[r], r, write[r].version)
        BY <2>3 DEF VersionsStay, HoldsNext
      <3>2. \A p \in store[n][KeyOf[r]].pending :
               HoldsNext(KeyOf[r], p.value, p.version)
        BY HoldsStays, KeyOfAssumption DEF PendingIsGenuine
      <3>3. ASSUME NEW m \in Node, NEW k \in Key
            PROVE  /\ HoldsNext(k, store'[m][k].seenValue, store'[m][k].seen)
                   /\ HoldsNext(k, store'[m][k].committedValue, store'[m][k].committed)
        <4>1. CASE m # n \/ k # KeyOf[r]
          BY <1>2, <2>3, <4>1 DEF Touched
        <4>2. CASE m = n /\ k = KeyOf[r]
          BY <1>2, <2>3, <3>1, <3>2, <4>2 DEF Touched
        <4> QED
          BY <4>1, <4>2
      <3> QED
        BY <3>3
    <2> QED
      BY <2>1, <2>2, <2>3, StoreSteps DEF Arrives, BecomesClean
  <1> QED
    BY <1>1, <1>3 DEF VersionNamesOneWrite, HoldsWrite, HoldsNext

-----------------------------------------------------------------------------
(* The reads *)

(* A read in progress is not disturbed by the steps of the others. *)
LEMMA ReadStays ==
  ASSUME Step, NEW i \in Reader, read'[i] = read[i], ReadHonest(i)
  PROVE  ReadHonest(i)'
  <1> USE DEF Step
  <1> DEFINE R == read[i]
             n == R.node
             k == R.key
             c == store[TailNode][k].committed
             d == store'[TailNode][k].committed
  <1>1. /\ n \in Node /\ k \in Key /\ R.tail \in Nat /\ R.floor \in Nat
        /\ R.clean \in Answer
    BY Types DEF ReadRecord
  <1>2. R.clean.version \in Nat
    BY <1>1 DEF Answer
  <1>3. /\ c \in Nat /\ d \in Nat /\ d >= c
        /\ store[n][k].seen \in Nat /\ store'[n][k].seen \in Nat
        /\ store'[n][k].seen >= store[n][k].seen
        /\ store[n][k].committed \in Nat /\ store'[n][k].committed \in Nat
        /\ store'[n][k].committed >= store[n][k].committed
    BY <1>1, StepFields, Positions
  <1>4. LocalClean(i) => LocalClean(i)'
    <2>1. R.clean.version <= c => R.clean.version <= d
      BY <1>2, <1>3
    <2>2. HoldsWrite(k, R.clean.value, R.clean.version)
          => HoldsNext(k, R.clean.value, R.clean.version)
      BY HoldsStays
    <2> QED
      BY <2>1, <2>2 DEF LocalClean, HoldsWrite, HoldsNext, TailNode
  <1>5. Kept(n, k, R.tail) => KeptNext(n, k, R.tail)
    BY <1>1, KeptStays
  <1>6. /\ store[n][k].seen >= R.floor => store'[n][k].seen >= R.floor
        /\ c >= R.floor => d >= R.floor
        /\ R.tail <= c => R.tail <= d
        /\ store[n][k].committed > R.tail => store'[n][k].committed > R.tail
    BY <1>1, <1>3
  <1>7. (R.pc \in {"clean", "dirty", "queried", "done"} => LocalClean(i))'
    BY <1>4 DEF ReadHonest
  <1> QED
    BY <1>5, <1>6, <1>7 DEF ReadHonest, Kept, KeptNext, TailNode

(* Where handle_read has come and what it then knows, step by step *)
LEMMA ReadHonestSteps ==
  ASSUME Parts, CleanOrder, TailKept, VersionNamesOneWrite, PendingIsGenuine,
         NEW i \in Reader, ReadHonest(i),
         \/ \E n \in Node, k \in Key : ReadLocalClean(i, n, k)
         \/ ReadStep(i) \/ QueryFails(i)
  PROVE  ReadHonest(i)'
  <1> DEFINE R == read[i]
             s == store[R.node][R.key]
             c == store[TailNode][R.key].committed
  <1>1. /\ R \in ReadRecord /\ read \in [Reader -> ReadRecord]
        /\ R.node \in Node /\ R.key \in Key /\ R.tail \in Nat /\ R.floor \in Nat
        /\ R.clean \in Answer
        /\ TailNode \in Node
    BY Types, Positions DEF ReadRecord, Parts, ReadOK
  <1>2. R.clean.version \in Nat
    BY <1>1 DEF Answer
  <1>3. s \in KeyState /\ store[TailNode][R.key] \in KeyState
    BY <1>1, Types
  <1>4. s.seen \in Nat /\ s.committed \in Nat /\ c \in Nat
    BY <1>3, KeyStateFields
  <1>5. store' = store /\ write' = write
    BY ReadsType DEF UnchangedByRead
  (* The cases that change the program counter of the read only *)
  <1>6. ASSUME NEW pc, ReadAt(i, pc)
        PROVE  /\ read'[i].pc = pc /\ read'[i].node = R.node /\ read'[i].key = R.key
               /\ read'[i].clean = R.clean /\ read'[i].tail = R.tail
               /\ read'[i].floor = R.floor
    BY <1>1, <1>6 DEF ReadAt, ReadRecord
  <1>7. ASSUME read'[i].key = R.key, read'[i].clean = R.clean, LocalClean(i)
        PROVE  LocalClean(i)'
    BY <1>5, <1>7 DEF LocalClean, HoldsWrite, TailNode
  <1>8. ASSUME NEW n \in Node, NEW k \in Key, ReadLocalClean(i, n, k)
        PROVE  ReadHonest(i)'
    <2> DEFINE a == ReadClean(store[n][k])
               t == store[TailNode][k].committed
    <2>1. /\ store[n][k] \in KeyState /\ store[TailNode][k] \in KeyState
      BY <1>1, Types
    <2>2. /\ store[n][k].committed \in Nat /\ store[n][k].seen \in Nat /\ t \in Nat
      BY <2>1, KeyStateFields
    <2>3. /\ a.version = store[n][k].committed
          /\ a.found <=> store[n][k].committed # 0
          /\ a.found => a.value = store[n][k].committedValue
      BY <2>1, ReadCleanEffect
    <2>4. /\ read'[i].pc = IF ~IsTail(n) THEN "clean"
                           ELSE IF a.found THEN "done" ELSE "notFound"
          /\ read'[i].node = n /\ read'[i].key = k /\ read'[i].clean = a
          /\ read'[i].floor = t
      BY <1>1, <1>8 DEF ReadLocalClean
    <2> HIDE DEF a, t
    <2>5. store[n][k].committed <= t
      BY <1>1, <2>2, Positions DEF CleanOrder, t
    <2>6. HoldsWrite(k, a.value, a.version)
      BY <2>3 DEF VersionNamesOneWrite, HoldsWrite
    <2>7. LocalClean(i)'
      BY <1>5, <2>2, <2>3, <2>4, <2>5, <2>6 DEF LocalClean, HoldsWrite, TailNode, t
    <2>8. store[n][k].seen >= t
      BY DEF TailKept, Kept, t
    <2>9. IsTail(n) => store[n][k].committed = t
      BY DEF IsTail, t
    <2>10. t >= t
      BY <2>2
    <2>11. /\ store'[n][k].seen >= t /\ store'[TailNode][k].committed >= t
      BY <1>5, <2>8, <2>10 DEF t
    <2>12. CASE read'[i].pc = "clean"
      BY <2>4, <2>7, <2>11, <2>12 DEF ReadHonest, TailNode
    <2>13. CASE read'[i].pc = "done"
      <3>1. read'[i].clean.found /\ read'[i].clean.version >= read'[i].floor
        BY <2>3, <2>4, <2>9, <2>10, <2>13
      <3> QED
        BY <3>1, <2>7, <2>13 DEF ReadHonest
    <2>14. CASE read'[i].pc = "notFound"
      <3>1. read'[i].floor = 0
        BY <2>3, <2>4, <2>9, <2>14
      <3> QED
        BY <3>1, <2>14 DEF ReadHonest
    <2> QED
      BY <2>4, <2>12, <2>13, <2>14
  <1>9. ASSUME ReadLatest(i) PROVE ReadHonest(i)'
    <2> DEFINE latest == ReadLatestSeen(s)
               dirty  == /\ latest.found
                         /\ ~R.clean.found \/ latest.version > R.clean.version
    <2>1. /\ LocalClean(i) /\ s.seen >= R.floor /\ c >= R.floor
      BY <1>9 DEF ReadLatest, ReadHonest
    <2>2. latest.version = s.seen /\ (latest.found <=> s.seen # 0)
      BY <1>3, ReadLatestSeenEffect
    <2>3. ReadAt(i, IF dirty THEN "dirty" ELSE IF R.clean.found THEN "done" ELSE "notFound")
      BY <1>9 DEF ReadLatest
    <2>4. R.clean.found <=> R.clean.version # 0
      BY <2>1 DEF LocalClean
    <2> HIDE DEF latest
    <2>5. /\ ~dirty /\ R.clean.found => R.clean.version >= R.floor
          /\ ~dirty /\ ~R.clean.found => R.floor = 0
      BY <1>1, <1>2, <1>4, <2>1, <2>2, <2>4
    <2> HIDE DEF dirty
    <2>6. /\ read'[i].pc = IF dirty THEN "dirty"
                           ELSE IF R.clean.found THEN "done" ELSE "notFound"
          /\ read'[i].node = R.node /\ read'[i].key = R.key
          /\ read'[i].clean = R.clean /\ read'[i].floor = R.floor
      BY <1>6, <2>3
    <2>7. LocalClean(i)'
      BY <1>7, <2>1, <2>6
    <2>8. CASE dirty
      BY <1>5, <2>1, <2>6, <2>7, <2>8 DEF ReadHonest, TailNode
    <2>9. CASE ~dirty
      BY <2>5, <2>6, <2>7, <2>9 DEF ReadHonest
    <2> QED
      BY <2>8, <2>9
  <1>10. ASSUME QueryTail(i) PROVE ReadHonest(i)'
    <2> DEFINE v == ReadClean(store[TailNode][R.key]).version
    <2>1. R.pc = "dirty"
          /\ read' = [read EXCEPT ![i].tail = v,
                                  ![i].pc = IF v = 0 THEN "notFound" ELSE "queried"]
      BY <1>10 DEF QueryTail, QueryAnswered
    <2>2. v = c
      BY <1>3, ReadCleanEffect
    <2> HIDE DEF v
    <2>3. /\ read'[i].pc = IF v = 0 THEN "notFound" ELSE "queried"
          /\ read'[i].node = R.node /\ read'[i].key = R.key /\ read'[i].tail = v
          /\ read'[i].clean = R.clean /\ read'[i].floor = R.floor
      BY <1>1, <2>1 DEF ReadRecord
    <2>4. LocalClean(i) /\ c >= R.floor
      BY <2>1 DEF ReadHonest
    <2>5. LocalClean(i)'
      BY <1>7, <2>3, <2>4
    <2>6. Kept(R.node, R.key, c)
      BY <1>1 DEF TailKept
    <2>7. CASE v = 0
      BY <1>1, <2>2, <2>3, <2>4, <2>7 DEF ReadHonest
    <2>8. CASE v # 0
      <3>1. c <= c
        BY <1>4
      <3>2. /\ read'[i].tail # 0 /\ read'[i].tail >= read'[i].floor
            /\ read'[i].tail <= store'[TailNode][read'[i].key].committed
        BY <1>5, <2>2, <2>3, <2>4, <2>8, <3>1 DEF TailNode
      <3>3. Kept(R.node, R.key, c) => KeptNext(read'[i].node, read'[i].key, read'[i].tail)
        BY <1>5, <2>2, <2>3 DEF Kept, KeptNext
      <3>4. read'[i].pc = "queried"
        BY <2>3, <2>8
      <3> QED
        BY <2>5, <2>6, <3>2, <3>3, <3>4 DEF ReadHonest, Kept, KeptNext, TailNode
    <2> QED
      BY <2>7, <2>8
  <1>11. ASSUME ReadMaterialize(i) PROVE ReadHonest(i)'
    <2> DEFINE found == ReadValueAtVersion(s, R.tail)
               local == IF R.clean.found /\ R.clean.version = R.tail THEN R.clean
                        ELSE found
    <2>1. /\ LocalClean(i) /\ R.tail # 0 /\ R.tail >= R.floor /\ R.tail <= c
          /\ Kept(R.node, R.key, R.tail)
      BY <1>11 DEF ReadMaterialize, ReadHonest
    <2>2. /\ found.found => /\ found = Found(found.value, R.tail)
                            /\ \/ s.committed = R.tail /\ found.value = s.committedValue
                               \/ \E p \in s.pending :
                                     p.version = R.tail /\ p.value = found.value
          /\ ~found.found => /\ s.committed # R.tail
                             /\ \A p \in s.pending : p.version # R.tail
      BY <1>1, <1>3, <2>1, ReadValueAtVersionEffect
    <2>3. IF local.found
          THEN read' = [read EXCEPT ![i].pc = "done", ![i].clean = local]
          ELSE ReadAt(i, "notMaterialized")
      BY <1>11 DEF ReadMaterialize
    <2> HIDE DEF found
    <2>4. found.found => HoldsWrite(R.key, found.value, R.tail)
      BY <1>1, <2>2 DEF VersionNamesOneWrite, PendingIsGenuine
    <2>5. found.found => found.version = R.tail
      BY <2>2 DEF Found
    <2>6. local.found => /\ local.version = R.tail
                         /\ HoldsWrite(R.key, local.value, R.tail)
      BY <2>1, <2>4, <2>5 DEF LocalClean
    <2>7. ~local.found => s.committed > R.tail
      <3>1. ~local.found => ~found.found
        OBVIOUS
      <3>2. s.committed >= R.tail \/ \E p \in s.pending : p.version = R.tail
        BY <2>1 DEF Kept
      <3> HIDE DEF local, s
      <3> QED
        BY <1>1, <1>4, <2>2, <3>1, <3>2
    <2> HIDE DEF local
    <2>8. CASE local.found
      <3>1. read' = [read EXCEPT ![i].pc = "done", ![i].clean = local]
        BY <2>3, <2>8
      <3>2. /\ read'[i].pc = "done" /\ read'[i].clean = local
            /\ read'[i].key = R.key /\ read'[i].floor = R.floor
        BY <1>1, <3>1 DEF ReadRecord
      <3>3. LocalClean(i)'
        BY <1>5, <2>1, <2>6, <2>8, <3>2 DEF LocalClean, HoldsWrite, TailNode
      <3> QED
        BY <2>1, <2>6, <2>8, <3>2, <3>3 DEF ReadHonest
    <2>9. CASE ~local.found
      <3>1. /\ read'[i].pc = "notMaterialized" /\ read'[i].node = R.node
            /\ read'[i].key = R.key /\ read'[i].tail = R.tail
        BY <1>6, <2>3, <2>9
      <3> QED
        BY <1>5, <2>7, <2>9, <3>1 DEF ReadHonest
    <2> QED
      BY <2>8, <2>9
  <1>12. ASSUME QueryFails(i) PROVE ReadHonest(i)'
    <2>1. read'[i].pc = "queryFailed"
      BY <1>6, <1>12 DEF QueryFails
    <2> QED
      BY <2>1 DEF ReadHonest
  <1> QED
    BY <1>8, <1>9, <1>10, <1>11, <1>12 DEF ReadStep

LEMMA ReadsHonest ==
  ASSUME Step, TailKept, VersionNamesOneWrite, PendingIsGenuine,
         \A i \in Reader : ReadHonest(i)
  PROVE  \A i \in Reader : ReadHonest(i)'
  <1> USE DEF Step
  <1>1. ASSUME NEW j \in Reader,
               \/ \E n \in Node, k \in Key : ReadLocalClean(j, n, k)
               \/ ReadStep(j) \/ QueryFails(j)
        PROVE  \A i \in Reader : ReadHonest(i)'
    <2>1. \A i \in Reader : i # j => read'[i] = read[i]
      <3>1. ReadChange(j) /\ read \in [Reader -> ReadRecord]
        BY <1>1, ReadsType DEF Parts, ReadOK
      <3> QED
        BY <3>1 DEF ReadChange
    <2> QED
      BY <1>1, <2>1, ReadStays, ReadHonestSteps
  <1>2. CASE UNCHANGED read
    BY <1>2, ReadStays
  <1> QED
    BY <1>1, <1>2
    DEF Next, WriteRejected, WriteAssign, WriteStep, Handling, WriteRecord, WriteForward,
        WriteCommit, WriteAck, Send, SendAck, PropagateStep, PropagateRecord,
        PropagateForward, PropagateCommit, PropagateAck, PropagateAckUpstream, CallFails,
        AckStep, AckMarkClean, AckForward, AckCallFails, Terminating, vars

LEMMA UncommittedKept ==
  ASSUME Step, UncommittedIsEmpty
  PROVE  UncommittedIsEmpty'
  <1> USE DEF Step
  <1>1. CASE UNCHANGED store
    BY <1>1 DEF UncommittedIsEmpty
  <1>2. ASSUME NEW r \in Req, NEW n \in Node, WriteAssign(r, n)
        PROVE  UncommittedIsEmpty'
    BY <1>2, AssignTouches DEF UncommittedIsEmpty
  <1>3. ASSUME NEW n \in Node, NEW r \in Req, write[r].version # 0,
               Touched(n, KeyOf[r], r, write[r].version)
        PROVE  UncommittedIsEmpty'
    BY <1>3 DEF Touched, UncommittedIsEmpty
  <1> QED
    BY <1>1, <1>2, <1>3, StoreSteps DEF Arrives, BecomesClean

-----------------------------------------------------------------------------
(* Delivered: every step hands on the message or the Ack it takes *)

(* Once a call is lost it is lost. *)
LEMMA LostStays ==
  ASSUME Step, ~lost'
  PROVE  ~lost
  <1> USE DEF Step
  <1>1. \A m : SendClientAck(m) => lost' = lost \/ lost' = TRUE
    BY DEF SendClientAck
  <1>2. \A c : RpcLost(c) \/ RpcAbandoned(c) => lost' = lost \/ lost' = TRUE
    BY DEF RpcLost, RpcAbandoned
  <1>3. \A a : AckWorker!RpcLost(a) \/ AckWorker!RpcAbandoned(a)
                  => lost' = lost \/ lost' = TRUE
    BY DEF AckWorker!RpcLost, AckWorker!RpcAbandoned
  <1>4. lost' = lost \/ lost' = TRUE
    BY <1>1, <1>2, <1>3, ReadsType
    DEF Next, WriteRejected, WriteAssign, WriteStep, Handling, WriteRecord, WriteForward,
        WriteCommit, WriteAck, Send, SendAck, PropagateStep, PropagateRecord,
        PropagateForward, PropagateCommit, PropagateAck, PropagateAckUpstream, CallFails,
        AckStep, AckMarkClean, AckForward, AckCallFails, UnchangedByRead, Terminating,
        vars
  <1> QED
    BY <1>4

(* A version that becomes clean at a node is over there. *)
LEMMA BecomesCleaned ==
  ASSUME Step, NEW n \in Node, NEW r \in Req, write[r].version # 0,
         BecomesClean(n, r, write[r].version)
  PROVE  Cleaned(n, r)'
  BY DEF Step, BecomesClean, Cleaned, VersionsStay

(* A node is done with a write until the same write is recorded there once *)
(* more: no other write has its version.                                   *)
LEMMA CleanedStays ==
  ASSUME Step, VersionNamesOneWrite, NEW n \in Node, NEW r \in Req,
         write[r].version # 0, Cleaned(n, r)
  PROVE  Cleaned(n, r)' \/ BeforeTail(r)'
  <1> USE DEF Step
  <1> DEFINE k == KeyOf[r]
             v == write[r].version
  <1>1. /\ k \in Key /\ v \in Nat /\ write'[r].version = v
        /\ store[n][k].committed \in Nat /\ store'[n][k].committed \in Nat
        /\ store'[n][k].committed >= store[n][k].committed
    BY Types, StepFields DEF VersionsStay
  <1>2. /\ store[n][k].committed >= v
        /\ \A p \in store[n][k].pending : p.version # v
    BY DEF Cleaned
  <1>3. store'[n][k].committed >= v
    BY <1>1, <1>2
  <1>4. ASSUME \A p \in store'[n][k].pending : p.version # v PROVE Cleaned(n, r)'
    BY <1>1, <1>3, <1>4 DEF Cleaned
  <1>5. ASSUME NEW q \in Req, NEW m \in Node, WriteAssign(q, m) PROVE Cleaned(n, r)'
    BY <1>1, <1>2, <1>4, <1>5, AssignTouches
  <1>6. ASSUME NEW m \in Node, NEW q \in Req, write[q].version # 0,
               Touched(m, KeyOf[q], q, write[q].version), q # r
        PROVE  Cleaned(n, r)'
    <2>1. KeyOf[q] = k => write[q].version # v
      BY <1>6 DEF VersionNamesOneWrite
    <2> QED
      BY <1>1, <1>2, <1>4, <1>6, <2>1 DEF Touched
  <1>7. ASSUME NEW m \in Node, BecomesClean(m, r, v) PROVE Cleaned(n, r)'
    <2>1. CASE m = n
      BY <1>7, <2>1, BecomesCleaned
    <2>2. CASE m # n
      BY <1>1, <1>2, <1>4, <1>7, <2>2 DEF BecomesClean, Touched
    <2> QED
      BY <2>1, <2>2
  <1> HIDE DEF k, v
  <1>8. CASE UNCHANGED store
    BY <1>2, <1>4, <1>8
  <1> QED
    BY <1>5, <1>6, <1>7, <1>8, StoreSteps DEF Arrives, BecomesClean, v

(* A task stays or becomes a call. *)
LEMMA TaskHandedOn ==
  ASSUME Step, NEW r \in Req, TaskOf(r)
  PROVE  TaskOf(r)' \/ CallOf(r)'
  <1> USE DEF Step
  <1>0. PICK p \in Node : \E t \in Tasks(p) : t.msg.req = r
    BY DEF TaskOf
  <1>1. PICK t \in Tasks(p) : t.msg.req = r
    BY <1>0
  <1>2. DispatcherTypeOK
    BY Types
  <1>3. t \in Tasks(p)' => TaskOf(r)'
    BY <1>1 DEF TaskOf
  <1>4. UNCHANGED queue => t \in Tasks(p)'
    BY DEF Tasks
  <1>5. ASSUME NEW q \in Req, WriteForward(q) PROVE t \in Tasks(p)'
    BY <1>2, <1>5, Positions, MessageType, EnqueueKeeps DEF WriteForward
  <1>6. ASSUME NEW c \in rpc, PropagateForward(c) PROVE t \in Tasks(p)'
    BY <1>2, <1>6, Positions, Types, EnqueueKeeps DEF PropagateForward
  <1>7. ASSUME NEW q \in Node, Send(q) PROVE t \in Tasks(p)' \/ CallOf(r)'
    <2> DEFINE d == [from |-> p, to |-> t.successor, msg |-> t.msg,
                     pc |-> "sent", held |-> TRUE]
    <2>1. t \in Tasks(p)' \/ d \in rpc'
      BY <1>2, <1>7, WorkerSendKeeps DEF Send
    <2>2. d.msg.req = r /\ d.pc = "sent"
      BY <1>1
    <2> QED
      BY <2>1, <2>2 DEF CallOf
  <1>8. ASSUME NEW c \in rpc, CallFails(c) PROVE UNCHANGED queue
    BY <1>8 DEF CallFails, RpcLost, RpcAbandoned
  <1> QED
    BY <1>3, <1>4, <1>5, <1>6, <1>7, <1>8, ReadsType
    DEF Next, WriteRejected, WriteAssign, WriteStep, Handling, WriteRecord, WriteCommit,
        WriteAck, SendAck, PropagateStep, PropagateRecord, PropagateCommit, PropagateAck,
        PropagateAckUpstream, AckStep, AckMarkClean, AckForward, AckCallFails,
        UnchangedByRead, Terminating, vars

(* A call is recorded, goes on as a task of its node or, at the tail,      *)
(* becomes clean there, and its Ack is owed to the nodes before.           *)
LEMMA CallHandedOn ==
  ASSUME Step, ~lost', NEW r \in Req, NEW n \in Node, CallOf(r)
  PROVE  BeforeTail(r)' \/ AckComes(r, n)' \/ Cleaned(n, r)'
  <1> USE DEF Step
  <1>1. PICK c \in rpc : c.msg.req = r /\ c.pc \in {"sent", "recorded"}
    BY DEF CallOf
  <1>2. DispatcherTypeOK
    BY Types
  <1>3. c.to \in Node /\ c.msg \in PropagateRequest
    BY Types
  <1>4. \A e \in rpc' : e.msg = c.msg /\ e.pc \in {"sent", "recorded"} => BeforeTail(r)'
    BY <1>1 DEF CallOf, BeforeTail
  <1>5. c \in rpc' => BeforeTail(r)'
    BY <1>1, <1>4
  <1>6. ASSUME NEW q \in Node, Send(q) PROVE c \in rpc'
    BY <1>2, <1>6, WorkerSendKeeps DEF Send
  <1>7. ASSUME NEW d \in rpc, PropagateRecord(d) PROVE BeforeTail(r)'
    <2>1. /\ d # c => c \in rpc'
          /\ \E e \in rpc' : e.to = d.to /\ e.msg = d.msg /\ e.pc = "recorded"
      BY <1>2, <1>7, AdvanceKeeps DEF PropagateRecord
    <2> QED
      BY <1>4, <1>5, <2>1
  <1>8. ASSUME NEW d \in rpc, PropagateForward(d) PROVE BeforeTail(r)'
    <2>1. CASE d # c
      BY <1>5, <1>8, <2>1 DEF PropagateForward, Return
    <2>2. CASE d = c
      <3>1. [successor |-> Successor(c.to), msg |-> c.msg] \in Tasks(c.to)'
        BY <1>2, <1>3, <1>8, <2>2, Positions, EnqueueKeeps DEF PropagateForward
      <3> QED
        BY <1>1, <1>3, <3>1 DEF TaskOf, BeforeTail
    <2> QED
      BY <2>1, <2>2
  <1>9. ASSUME NEW d \in rpc, PropagateCommit(d)
        PROVE  BeforeTail(r)' \/ AckComes(r, n)' \/ Cleaned(n, r)'
    <2>1. /\ d # c => c \in rpc'
          /\ \E e \in rpc' : e.to = d.to /\ e.msg = d.msg /\ e.pc = "committed"
      BY <1>2, <1>9, AdvanceKeeps DEF PropagateCommit
    <2>2. CASE d # c
      BY <1>5, <2>1, <2>2
    <2>3. CASE d = c /\ n # TailNode
      BY <1>1, <2>1, <2>3 DEF TailCallOf, AckComes
    <2>4. CASE d = c /\ n = TailNode
      <3>1. c.to = n
        BY <1>9, <2>4 DEF PropagateCommit, IsTail
      <3>2. write[r].version # 0 /\ BecomesClean(n, r, write[r].version)
        BY <1>1, <1>9, <2>4, <3>1, PropagateTouches
      <3> QED
        BY <3>2, BecomesCleaned
    <2> QED
      BY <2>2, <2>3, <2>4
  <1>10. ASSUME NEW d \in rpc, PropagateAck(d) PROVE c \in rpc'
    BY <1>1, <1>2, <1>10, AdvanceKeeps DEF PropagateAck
  <1>11. ASSUME NEW d \in rpc, PropagateAckUpstream(d) PROVE c \in rpc'
    BY <1>1, <1>11 DEF PropagateAckUpstream, Return
  <1>12. ASSUME NEW d \in rpc, CallFails(d) PROVE BeforeTail(r)'
    <2>1. RpcAbandoned(d)
      BY <1>12 DEF CallFails, RpcLost
    <2> QED
      BY <1>1, <1>2, <1>4, <2>1, AbandonedKeeps
  <1>13. UNCHANGED rpc => c \in rpc'
    OBVIOUS
  <1> QED
    BY <1>5, <1>6, <1>7, <1>8, <1>9, <1>10, <1>11, <1>12, <1>13, ReadsType
    DEF Next, WriteRejected, WriteAssign, WriteStep, Handling, WriteRecord, WriteForward,
        WriteCommit, WriteAck, PropagateStep, SendAck, AckStep, AckMarkClean, AckForward,
        AckCallFails, UnchangedByRead, Terminating, vars

(* The tail does not forget the Ack it owes. *)
LEMMA TailCallHandedOn ==
  ASSUME Step, NEW r \in Req, NEW n \in Node, n # TailNode, TailCallOf(r)
  PROVE  AckComes(r, n)'
  <1> USE DEF Step
  <1>1. PICK c \in rpc : c.msg.req = r /\ c.pc \in {"committed", "acked"}
    BY DEF TailCallOf
  <1>2. DispatcherTypeOK /\ AckDispatcherOK
    BY Types
  <1>3. /\ c.to \in Node /\ c.msg \in PropagateRequest /\ c.to = TailNode
        /\ n < c.to /\ Predecessor(c.to) \in Node
    <2>1. c.to \in Node /\ c.msg \in PropagateRequest /\ CallPassed(c)
      BY Types DEF HoldersPassed
    <2>2. c.to = TailNode
      BY <1>1, <2>1 DEF CallPassed, IsTail
    <2> QED
      BY <2>1, <2>2, ChainAssumption DEF TailNode, Predecessor
  <1>4. \A e \in rpc' : e.msg = c.msg /\ e.pc \in {"committed", "acked"} => AckComes(r, n)'
    BY <1>1 DEF TailCallOf, AckComes, TailNode
  <1>5. c \in rpc' => AckComes(r, n)'
    BY <1>1, <1>4
  <1>6. ASSUME NEW q \in Node, Send(q) PROVE c \in rpc'
    BY <1>2, <1>6, WorkerSendKeeps DEF Send
  <1>7. ASSUME NEW d \in rpc, PropagateRecord(d) \/ PropagateCommit(d) PROVE c \in rpc'
    BY <1>1, <1>2, <1>7, AdvanceKeeps DEF PropagateRecord, PropagateCommit
  <1>8. ASSUME NEW d \in rpc, PropagateForward(d) PROVE c \in rpc'
    BY <1>1, <1>8 DEF PropagateForward, Return
  <1>9. ASSUME NEW d \in rpc, PropagateAck(d) PROVE AckComes(r, n)'
    <2>1. /\ d # c => c \in rpc'
          /\ \E e \in rpc' : e.to = d.to /\ e.msg = d.msg /\ e.pc = "acked"
      BY <1>2, <1>9, AdvanceKeeps DEF PropagateAck
    <2> QED
      BY <1>4, <1>5, <2>1
  <1>10. ASSUME NEW d \in rpc, PropagateAckUpstream(d) PROVE AckComes(r, n)'
    <2>1. CASE d # c
      BY <1>5, <1>10, <2>1 DEF PropagateAckUpstream, Return
    <2>2. CASE d = c
      <3>1. [successor |-> Predecessor(c.to), msg |-> c.msg] \in AckTasks(c.to)'
        BY <1>2, <1>3, <1>10, <2>2, AckEnqueueKeeps DEF PropagateAckUpstream, EnqueueAck
      <3> QED
        BY <1>1, <1>3, <3>1 DEF AckTaskAfter, AckComes, AckTasks
    <2> QED
      BY <2>1, <2>2
  <1>11. ASSUME NEW d \in rpc, CallFails(d) PROVE AckComes(r, n)'
    <2>1. CASE RpcLost(d)
      BY <1>1, <1>5, <2>1 DEF RpcLost
    <2>2. CASE RpcAbandoned(d)
      BY <1>1, <1>2, <1>4, <2>2, AbandonedKeeps
    <2> QED
      BY <1>11, <2>1, <2>2 DEF CallFails
  <1>12. UNCHANGED rpc => c \in rpc'
    OBVIOUS
  <1> QED
    BY <1>5, <1>6, <1>7, <1>8, <1>9, <1>10, <1>11, <1>12, ReadsType
    DEF Next, WriteRejected, WriteAssign, WriteStep, Handling, WriteRecord, WriteForward,
        WriteCommit, WriteAck, PropagateStep, SendAck, AckStep, AckMarkClean, AckForward,
        AckCallFails, UnchangedByRead, Terminating, vars

(* An Ack waiting behind node n stays or becomes a call to it or to a node *)
(* after it.                                                               *)
LEMMA AckTaskHandedOn ==
  ASSUME Step, NEW r \in Req, NEW n \in Node, AckTaskAfter(r, n)
  PROVE  AckTaskAfter(r, n)' \/ AckCallTo(r, n)'
  <1> USE DEF Step
  <1>0. PICK p \in Node : n < p /\ \E t \in AckTasks(p) : t.msg.req = r
    BY DEF AckTaskAfter, AckTasks
  <1>1. PICK t \in AckTasks(p) : t.msg.req = r
    BY <1>0
  <1>2. AckDispatcherOK
    BY Types
  <1>3. t.successor = Predecessor(p) /\ n <= Predecessor(p)
    <2>1. t.successor = Predecessor(p)
      BY DEF HoldersPassed, AckTaskPassed, AckTasks
    <2> QED
      BY <1>0, <2>1, ChainAssumption DEF Predecessor
  <1>4. t \in AckTasks(p)' => AckTaskAfter(r, n)'
    BY <1>0, <1>1 DEF AckTaskAfter, AckTasks
  <1>5. UNCHANGED ackQueue => t \in AckTasks(p)'
    BY DEF AckTasks, AckWorker!Tasks
  <1>6. ASSUME NEW q \in Node, NEW m \in PropagateRequest,
               AckWorker!Enqueue(q, Predecessor(q), m)
        PROVE  t \in AckTasks(p)'
    <2>1. CASE Predecessor(q) \in Node
      BY <1>2, <1>6, <2>1, AckEnqueueKeeps
    <2>2. CASE Predecessor(q) \notin Node
      BY <1>5, <1>6, <2>2 DEF AckWorker!Enqueue
    <2> QED
      BY <2>1, <2>2
  <1>7. ASSUME NEW c \in rpc, PropagateAckUpstream(c) PROVE t \in AckTasks(p)'
    BY <1>6, <1>7, Types DEF PropagateAckUpstream, EnqueueAck
  <1>8. ASSUME NEW a \in ackRpc, AckForward(a) PROVE t \in AckTasks(p)'
    BY <1>5, <1>6, <1>8, Types DEF AckForward
  <1>9. ASSUME NEW q \in Node, SendAck(q) PROVE t \in AckTasks(p)' \/ AckCallTo(r, n)'
    <2> DEFINE d == [from |-> p, to |-> t.successor, msg |-> t.msg,
                     pc |-> "sent", held |-> TRUE]
    <2>1. t \in AckTasks(p)' \/ d \in ackRpc'
      BY <1>2, <1>9, AckSendKeeps DEF SendAck
    <2>2. d.msg.req = r /\ d.pc = "sent" /\ n <= d.to
      BY <1>1, <1>3
    <2> QED
      BY <2>1, <2>2 DEF AckCallTo
  <1>10. ASSUME NEW a \in ackRpc, AckCallFails(a) PROVE UNCHANGED ackQueue
    BY <1>2, <1>10, AckCallFailsEffect DEF AckCallFails
  <1> QED
    BY <1>4, <1>5, <1>7, <1>8, <1>9, <1>10, ReadsType
    DEF Next, WriteRejected, WriteAssign, WriteStep, Handling, WriteRecord, WriteForward,
        WriteCommit, WriteAck, Send, PropagateStep, PropagateRecord, PropagateForward,
        PropagateCommit, PropagateAck, CallFails, AckStep, AckMarkClean,
        UnchangedByRead, ackVars, Terminating, vars

(* handle_ack makes the version clean at its node and passes the Ack on to *)
(* the nodes before.                                                       *)
LEMMA AckCallHandedOn ==
  ASSUME Step, ~lost', NEW r \in Req, NEW n \in Node, AckCallTo(r, n)
  PROVE  AckComes(r, n)' \/ Cleaned(n, r)'
  <1> USE DEF Step
  <1>1. PICK a \in ackRpc : /\ a.msg.req = r
                            /\ \/ a.pc = "sent" /\ n <= a.to
                               \/ a.pc = "committed" /\ n < a.to
    BY DEF AckCallTo
  <1>2. AckDispatcherOK
    BY Types
  <1>3. a.to \in Node /\ a.msg \in PropagateRequest /\ Node \subseteq Nat
    BY Types, Positions
  <1>4. \A e \in ackRpc' : e.to = a.to /\ e.msg = a.msg /\ e.pc = a.pc
                              => AckComes(r, n)'
    BY <1>1 DEF AckCallTo, AckComes
  <1>5. a \in ackRpc' => AckComes(r, n)'
    BY <1>4
  <1>6. ASSUME NEW q \in Node, SendAck(q) PROVE a \in ackRpc'
    BY <1>2, <1>6, AckSendKeeps DEF SendAck
  <1>7. ASSUME NEW b \in ackRpc, AckMarkClean(b)
        PROVE  AckComes(r, n)' \/ Cleaned(n, r)'
    <2>1. /\ b # a => a \in ackRpc'
          /\ \E e \in ackRpc' : e.to = b.to /\ e.msg = b.msg /\ e.pc = "committed"
      BY <1>2, <1>7, AckAdvanceKeeps DEF AckMarkClean
    <2>2. CASE b # a
      BY <1>5, <2>1, <2>2
    <2>3. CASE b = a /\ a.to # n
      <3>0. n \in Nat /\ a.to \in Nat
        BY <1>3
      <3>n. n <= a.to
        BY <1>1, <3>0
      <3>1. n < a.to
        BY <2>3, <3>0, <3>n
      <3> QED
        BY <1>1, <2>1, <2>3, <3>1 DEF AckCallTo, AckComes
    <2>4. CASE b = a /\ a.to = n
      <3>1. write[r].version # 0 /\ BecomesClean(n, r, write[r].version)
        BY <1>1, <1>7, <2>4, AckTouches
      <3> QED
        BY <3>1, BecomesCleaned
    <2> QED
      BY <2>2, <2>3, <2>4
  <1>8. ASSUME NEW b \in ackRpc, AckForward(b) PROVE AckComes(r, n)'
    <2>1. CASE b # a
      BY <1>5, <1>8, <2>1 DEF AckForward, AckWorker!Return
    <2>2. CASE b = a
      <3>1. n < a.to
        BY <1>1, <1>8, <2>2 DEF AckForward
      <3>2. ~IsHead(a.to) /\ Predecessor(a.to) \in Node
        BY <1>3, <3>1, ChainAssumption DEF IsHead, HeadNode, Predecessor
      <3>3. AckWorker!Enqueue(a.to, Predecessor(a.to), a.msg)
        BY <1>8, <2>2, <3>2 DEF AckForward
      <3>4. [successor |-> Predecessor(a.to), msg |-> a.msg] \in AckTasks(a.to)'
        BY <1>2, <1>3, <3>2, <3>3, AckEnqueueKeeps
      <3> QED
        BY <1>1, <1>3, <3>1, <3>4 DEF AckTaskAfter, AckComes, AckTasks
    <2> QED
      BY <2>1, <2>2
  <1>9. ASSUME NEW b \in ackRpc, AckCallFails(b) PROVE AckComes(r, n)'
    <2>1. AckWorker!RpcAbandoned(b)
      BY <1>9 DEF AckCallFails, AckWorker!RpcLost
    <2> QED
      BY <1>2, <1>4, <2>1, AckAbandonedKeeps
  <1>10. UNCHANGED ackRpc => a \in ackRpc'
    OBVIOUS
  <1> QED
    BY <1>5, <1>6, <1>7, <1>8, <1>9, <1>10, ReadsType
    DEF Next, WriteRejected, WriteAssign, WriteStep, Handling, WriteRecord, WriteForward,
        WriteCommit, WriteAck, Send, PropagateStep, PropagateRecord, PropagateForward,
        PropagateCommit, PropagateAck, PropagateAckUpstream, EnqueueAck, CallFails,
        AckStep, UnchangedByRead, ackVars, Terminating, vars

(* handle_write keeps the message until it enqueues it or, alone in its    *)
(* chain, makes it clean.                                                  *)
LEMMA WriteHandedOn ==
  ASSUME Step, NEW r \in Req, NEW n \in Node,
         write[r].pc \in {"assigned", "recorded"}
  PROVE  BeforeTail(r)' \/ Cleaned(n, r)'
  <1> USE DEF Step
  <1>1. ASSUME write'[r].pc = write[r].pc PROVE BeforeTail(r)'
    BY <1>1 DEF BeforeTail
  <1>2. ASSUME NEW q \in Req, NEW pc, WriteAt(q, pc), q # r
        PROVE  write'[r].pc = write[r].pc
    BY <1>2 DEF WriteAt, Parts, WriteOK
  <1>3. ASSUME WriteRecord(r) PROVE BeforeTail(r)'
    BY <1>3 DEF WriteRecord, WriteAt, Parts, WriteOK, BeforeTail
  <1>4. ASSUME WriteForward(r) PROVE BeforeTail(r)'
    <2>1. [successor |-> Successor(HeadNode), msg |-> Message(r)] \in Tasks(HeadNode)'
      BY <1>4, Positions, MessageType, Types, EnqueueKeeps DEF WriteForward
    <2>2. PICK t : t = [successor |-> Successor(HeadNode), msg |-> Message(r)]
      OBVIOUS
    <2>3. t.msg.req = r /\ t \in Tasks(HeadNode)'
      BY <2>1, <2>2 DEF Message
    <2> QED
      BY <2>3, Positions DEF TaskOf, BeforeTail
  <1>5. ASSUME WriteCommit(r) PROVE Cleaned(n, r)'
    <2>1. n = HeadNode
      BY <1>5, ChainAssumption DEF WriteCommit, IsTail, HeadNode, TailNode
    <2> QED
      BY <1>5, <2>1, WriteTouches, BecomesCleaned
  <1>6. WriteStep(r) => WriteRecord(r) \/ WriteForward(r) \/ WriteCommit(r)
    BY DEF WriteStep, WriteAck
  <1>7. ASSUME NEW q \in Req, NEW p \in Node, WriteAssign(q, p)
        PROVE  write'[r].pc = write[r].pc
    <2>1. q # r
      BY <1>7, AssignTouches
    <2> QED
      BY <1>7, <2>1, AssignTouches DEF Parts, WriteOK
  <1>8. ASSUME NEW q \in Req, NEW p \in Node, WriteRejected(q, p)
        PROVE  write'[r].pc = write[r].pc
    BY <1>2, <1>8 DEF WriteRejected
  <1>9. ASSUME NEW q \in Req, WriteStep(q), q # r
        PROVE  write'[r].pc = write[r].pc
    BY <1>2, <1>9 DEF WriteStep, WriteRecord, WriteForward, WriteCommit, WriteAck
  <1> QED
    BY <1>1, <1>3, <1>4, <1>5, <1>6, <1>7, <1>8, <1>9, ReadsType
    DEF Next, Handling, Send, SendAck, PropagateStep, PropagateRecord,
        PropagateForward, PropagateCommit, PropagateAck, PropagateAckUpstream, CallFails,
        AckStep, AckMarkClean, AckForward, AckCallFails, UnchangedByRead, Terminating,
        vars

LEMMA DeliveredKept ==
  ASSUME Step, VersionNamesOneWrite, Delivered
  PROVE  Delivered'
  <1> USE DEF Step
  <1> SUFFICES ASSUME ~lost', NEW r \in Req, NEW n \in Node, write'[r].version # 0
               PROVE  Cleaned(n, r)' \/ BeforeTail(r)' \/ AckComes(r, n)'
    BY DEF Delivered
  <1>1. CASE write[r].version = 0
    <2>1. PICK q \in Req, p \in Node : WriteAssign(q, p)
      BY <1>1, VersionsChange
    <2>2. write'[q].pc = "assigned" /\ (q # r => write'[r] = write[r])
      BY <2>1, AssignTouches DEF Parts, WriteOK
    <2> QED
      BY <1>1, <2>2 DEF BeforeTail
  <1>2. CASE write[r].version # 0
    <2>1. Cleaned(n, r) \/ BeforeTail(r) \/ AckComes(r, n)
      BY <1>2, LostStays DEF Delivered
    <2>2. TaskOf(r)' \/ CallOf(r)' => BeforeTail(r)'
      BY DEF BeforeTail
    <2>3. AckTaskAfter(r, n)' \/ AckCallTo(r, n)' => AckComes(r, n)'
      BY DEF AckComes
    <2>4. BeforeTail(r) => Cleaned(n, r)' \/ BeforeTail(r)' \/ AckComes(r, n)'
      BY <2>2, WriteHandedOn, TaskHandedOn, CallHandedOn DEF BeforeTail
    <2>5. AckComes(r, n) => Cleaned(n, r)' \/ AckComes(r, n)'
      BY <2>3, TailCallHandedOn, AckTaskHandedOn, AckCallHandedOn DEF AckComes
    <2> QED
      BY <1>2, <2>1, <2>4, <2>5, CleanedStays
  <1> QED
    BY <1>1, <1>2

-----------------------------------------------------------------------------
(* The inductive invariant and the theorems it gives *)

LEMMA InitIInv == Init => IInv
  <1> SUFFICES ASSUME Init PROVE IInv
    OBVIOUS
  <1>1. TypeOK
    BY InitTypeOK
  <1>2. \A n \in Node, k \in Key : store[n][k] = FreshKey
    BY DEF Init
  <1>3. HoldersPassed
    BY DEF Init, DispatcherInit, AckWorker!DispatcherInit, HoldersPassed, WritePassed,
           Tasks, AckWorker!Tasks
  <1>4. /\ \A n \in Node, k \in Key :
              /\ store[n][k].next = 0 /\ store[n][k].seen = 0 /\ store[n][k].committed = 0
              /\ store[n][k].pending = {}
    BY <1>2 DEF FreshKey
  <1>5. CleanOrder /\ PendingIsGenuine /\ VersionNamesOneWrite
    BY <1>4 DEF Init, CleanOrder, PendingIsGenuine, VersionNamesOneWrite, HoldsWrite
  <1>6. TailKept
    BY <1>4, Positions DEF TailKept, Kept
  <1>7. AckedCommitted
    BY DEF Init, AckedCommitted
  <1>8. VersionsBelowNext /\ NextIsAssigned
    BY <1>4, KeyOfAssumption, Positions DEF Init, VersionsBelowNext, NextIsAssigned
  <1>9. \A i \in Reader : ReadHonest(i)
    BY DEF Init, IdleRead, ReadHonest
  <1>10. UncommittedIsEmpty /\ Delivered
    BY <1>2 DEF Init, FreshKey, UncommittedIsEmpty, Delivered
  <1> QED
    BY <1>1, <1>3, <1>5, <1>6, <1>7, <1>8, <1>9, <1>10 DEF IInv

LEMMA StepOfIInv ==
  ASSUME IInv, [Next]_vars
  PROVE  Step
  <1>1. Parts /\ HoldersPassed /\ CleanOrder
    BY TypeParts DEF IInv
  <1>2. Parts'
    <2>1. TypeOK'
      BY NextTypeOK DEF IInv
    <2> QED
      BY <2>1, TypeParts, PTL
  <1> QED
    BY <1>1, <1>2, StepGrows DEF Step

LEMMA NextIInv == IInv /\ [Next]_vars => IInv'
  <1> SUFFICES ASSUME IInv, [Next]_vars PROVE IInv'
    OBVIOUS
  <1>1. Step /\ TypeOK'
    BY StepOfIInv, NextTypeOK DEF IInv
  <1>2. HoldersPassed'
    BY <1>1, TasksPassed, CallsPassed, AckTasksPassed, AckCallsPassed, WritesPassed
    DEF HoldersPassed
  <1> QED
    BY <1>1, <1>2, CleanOrderKept, TailKeptKept, AckedKept, BelowNextKept,
       NextAssignedKept, OneWriteKept, PendingKept, ReadsHonest, UncommittedKept,
       DeliveredKept
    DEF IInv

(* The inductive invariant: whoever holds a Propagate or an Ack knows how  *)
(* far its version has come down the chain and where it is clean, and each *)
(* handle_read knows what its answer will be worth.                        *)
THEOREM Invariance == Spec => []IInv
  BY InitIInv, NextIInv, PTL DEF Spec

(* The clean versions never decrease along the chain, although several     *)
(* calls of each node are in flight and Acks overtake one another or are   *)
(* lost.                                                                   *)
THEOREM CleanOrderTheorem == Spec => []CleanOrder
  <1>1. IInv => CleanOrder
    BY DEF IInv
  <1> QED
    BY <1>1, Invariance, PTL

(* The types the theorems read off the invariant *)
LEMMA IInvTypes ==
  ASSUME IInv
  PROVE  /\ Parts /\ TailNode \in Node
         /\ \A n \in Node, k \in Key :
               /\ store[n][k] \in KeyState
               /\ store[n][k].seen \in Nat /\ store[n][k].committed \in Nat
         /\ \A r \in Req : KeyOf[r] \in Key /\ write[r].version \in Nat
  <1>1. Parts
    BY TypeParts DEF IInv
  <1> QED
    BY <1>1, Types, StoreType, Positions

(* A client that holds an acknowledgement of the tail knows its write, or  *)
(* a newer one of the same key, committed there and seen by every replica. *)
THEOREM AckedTheorem == Spec => []AckedEverywhere
  <1>1. IInv => AckedEverywhere
    <2> SUFFICES ASSUME IInv, NEW a \in acked
                 PROVE  LET k == KeyOf[a.req]
                        IN  /\ a.version = write[a.req].version
                            /\ store[TailNode][k].committed >= a.version
                            /\ \A n \in Node : store[n][k].seen >= a.version
      BY DEF AckedEverywhere
    <2> DEFINE k == KeyOf[a.req]
    <2>1. k \in Key /\ a.version \in Nat
      BY IInvTypes, KeyOfAssumption DEF Parts, AckedOK
    <2>2. a.version = write[a.req].version /\ store[TailNode][k].committed >= a.version
      BY DEF IInv, AckedCommitted, Genuine, Committed
    <2>3. \A n \in Node : /\ store[n][k].seen \in Nat
                          /\ store[n][k].seen >= store[TailNode][k].committed
      BY <2>1, IInvTypes DEF IInv, TailKept, Kept
    <2>4. store[TailNode][k].committed \in Nat
      BY <2>1, IInvTypes
    <2> HIDE DEF k
    <2>5. \A n \in Node : store[n][k].seen >= a.version
      BY <2>1, <2>2, <2>3, <2>4
    <2> QED
      BY <2>2, <2>5 DEF k
  <1> QED
    BY <1>1, Invariance, PTL

(* A node that has not got the Ack of the version the tail has committed   *)
(* still has that version pending, with the value the tail committed.      *)
THEOREM ReadableTheorem == Spec => []CommittedIsReadable
  <1>1. IInv => CommittedIsReadable
    <2> SUFFICES ASSUME IInv, NEW n \in Node, NEW k \in Key,
                        store[TailNode][k].committed > store[n][k].committed
                 PROVE  ReadValueAtVersion(store[n][k], store[TailNode][k].committed)
                           = Found(store[TailNode][k].committedValue,
                                   store[TailNode][k].committed)
      BY DEF CommittedIsReadable
    <2> DEFINE s == store[n][k]
               v == store[TailNode][k].committed
               x == store[TailNode][k].committedValue
               a == ReadValueAtVersion(s, v)
    <2>1. s \in KeyState /\ v \in Nat /\ s.committed \in Nat /\ TailNode \in Node
      BY IInvTypes
    <2>2. v # 0 /\ s.committed # v /\ ~(s.committed >= v)
      BY <2>1
    <2>3. /\ a.found => /\ a = Found(a.value, v)
                        /\ \/ s.committed = v /\ a.value = s.committedValue
                           \/ \E p \in s.pending : p.version = v /\ p.value = a.value
          /\ ~a.found => /\ s.committed # v
                         /\ \A p \in s.pending : p.version # v
      BY <2>1, <2>2, ReadValueAtVersionEffect
    <2> HIDE DEF a
    <2>4. \E p \in s.pending : p.version = v
      BY <2>2 DEF IInv, TailKept, Kept
    <2>5. /\ a = Found(a.value, v)
          /\ \E p \in s.pending : p.version = v /\ p.value = a.value
      BY <2>2, <2>3, <2>4
    <2>6. HoldsWrite(k, a.value, v)
      BY <2>5 DEF IInv, PendingIsGenuine
    <2>7. HoldsWrite(k, x, v)
      BY <2>1 DEF IInv, VersionNamesOneWrite
    <2>8. a.value = x
      BY <2>2, <2>6, <2>7 DEF IInv, VersionNamesOneWrite, HoldsWrite
    <2> QED
      BY <2>5, <2>8 DEF a
  <1> QED
    BY <1>1, Invariance, PTL

(* Whichever node serves a read and whatever happens between the steps of  *)
(* handle_read, the answer is a committed version with its value.          *)
THEOREM ReadsTheorem == Spec => []ReadsCommitted
  <1>1. IInv => ReadsCommitted
    BY DEF IInv, ReadHonest, LocalClean, ReadsCommitted
  <1> QED
    BY <1>1, Invariance, PTL

(* A read is never older than what the tail had committed when it began.   *)
THEOREM FreshTheorem == Spec => []ReadsFresh
  <1>1. IInv => ReadsFresh
    BY DEF IInv, ReadHonest, ReadsFresh
  <1> QED
    BY <1>1, Invariance, PTL

(* A read finds nothing only where nothing was committed when it began,    *)
(* and fails to materialize a version only behind a newer clean one.       *)
THEOREM CauseTheorem == Spec => []ReadsFailForCause
  <1>1. IInv => ReadsFailForCause
    BY DEF IInv, ReadHonest, ReadsFailForCause
  <1> QED
    BY <1>1, Invariance, PTL

(* Unless a call was lost, once the writes are done every replica has the  *)
(* last version of every key as its clean one, with the value of the tail, *)
(* and nothing pending: however calls and Acks overtook one another, no    *)
(* version stays dirty and none is kept for ever.                          *)
THEOREM QuietTheorem == Spec => []QuietClean
  <1>1. ASSUME IInv, QuietWrites, ~lost, NEW r \in Req, NEW n \in Node,
               write[r].version # 0
        PROVE  Cleaned(n, r)
    <2>1. \A p \in Node : Tasks(p) = {} /\ AckWorker!Tasks(p) = {}
      BY <1>1 DEF QuietWrites, Tasks, AckWorker!Tasks
    <2>2. ~BeforeTail(r) /\ ~AckComes(r, n)
      BY <1>1, <2>1
      DEF QuietWrites, BeforeTail, TaskOf, CallOf, AckComes, TailCallOf, AckTaskAfter,
          AckCallTo
    <2> QED
      BY <1>1, <2>2 DEF IInv, Delivered
  <1>2. ASSUME IInv, QuietWrites, ~lost, NEW k \in Key, NEW n \in Node
        PROVE  store[n][k].pending = {}
    <2> SUFFICES ASSUME NEW p \in store[n][k].pending PROVE FALSE
      OBVIOUS
    <2>1. /\ p.version # 0 /\ p.value \in Req
          /\ KeyOf[p.value] = k /\ write[p.value].version = p.version
      BY <1>2 DEF IInv, PendingIsGenuine, HoldsWrite
    <2> QED
      BY <1>1, <1>2, <2>1 DEF Cleaned
  <1>3. ASSUME IInv, QuietWrites, ~lost, NEW k \in Key, NEW n \in Node
        PROVE  store[n][k].committed = store[HeadNode][k].next
    <2>1. store[n][k].committed \in Nat /\ store[HeadNode][k].next \in Nat
      BY <1>3, IInvTypes, StoreType, Positions
    <2>2. store[n][k].committed <= store[HeadNode][k].next
      <3>1. HoldsWrite(k, store[n][k].committedValue, store[n][k].committed)
        BY <1>3 DEF IInv, VersionNamesOneWrite
      <3> QED
        BY <1>3, <2>1, <3>1 DEF HoldsWrite, IInv, VersionsBelowNext
    <2>3. CASE store[HeadNode][k].next # 0
      <3>1. PICK r \in Req : KeyOf[r] = k /\ write[r].version = store[HeadNode][k].next
        BY <1>3, <2>3 DEF IInv, NextIsAssigned
      <3>2. store[n][k].committed >= store[HeadNode][k].next
        BY <1>1, <1>3, <2>3, <3>1 DEF Cleaned
      <3> QED
        BY <2>1, <2>2, <3>2
    <2> QED
      BY <2>1, <2>2, <2>3
  <1>4. ASSUME IInv, QuietWrites, ~lost, NEW k \in Key, NEW n \in Node
        PROVE  store[n][k].committedValue = store[TailNode][k].committedValue
    <2>1. TailNode \in Node /\ store[n][k].committed = store[TailNode][k].committed
      BY <1>3, <1>4, Positions
    <2>2. CASE store[n][k].committed = 0
      BY <1>4, <2>1, <2>2 DEF IInv, UncommittedIsEmpty
    <2>3. CASE store[n][k].committed # 0
      <3>1. /\ HoldsWrite(k, store[n][k].committedValue, store[n][k].committed)
            /\ HoldsWrite(k, store[TailNode][k].committedValue, store[n][k].committed)
        BY <1>4, <2>1 DEF IInv, VersionNamesOneWrite
      <3> QED
        BY <1>4, <2>3, <3>1 DEF HoldsWrite, IInv, VersionNamesOneWrite
    <2> QED
      BY <2>2, <2>3
  <1>5. IInv => QuietClean
    BY <1>2, <1>3, <1>4 DEF QuietClean
  <1> QED
    BY <1>5, Invariance, PTL

-----------------------------------------------------------------------------
(* The refinement of the register *)

(* What the clients can see of a step: versions given out, the committed   *)
(* values of the tail, acknowledgements.                                   *)
VersionsSame == \A r \in Req : write'[r].version = write[r].version

CommittedSameAt(k) ==
    /\ store'[TailNode][k].committed = store[TailNode][k].committed
    /\ store'[TailNode][k].committedValue = store[TailNode][k].committedValue
CommittedSame == \A k \in Key : CommittedSameAt(k)

Acknowledged(r) ==
    /\ write[r].version # 0
    /\ write[r].version <= store[TailNode][KeyOf[r]].committed
    /\ acked' = acked \cup {[req |-> r, version |-> write[r].version]}

LEMMA AckEffect ==
  ASSUME Parts, NEW m, IsMessage(m), Genuine(m), Committed(m), SendClientAck(m)
  PROVE  UNCHANGED acked \/ \E r \in Req : Acknowledged(r)
  <1>1. m.req \in Req /\ m.version = write[m.req].version /\ m.version # 0
    BY DEF IsMessage, Genuine
  <1>2. /\ m.version \in Nat /\ store[TailNode][KeyOf[m.req]].committed \in Nat
    BY <1>1, Types, StoreType, Positions DEF IsMessage
  <1>3. m.version <= store[TailNode][KeyOf[m.req]].committed
    BY <1>2 DEF Committed
  <1>4. UNCHANGED acked \/ acked' = acked \cup {AckRequest(m)}
    BY DEF SendClientAck
  <1>5. ASSUME acked' = acked \cup {AckRequest(m)} PROVE Acknowledged(m.req)
    BY <1>1, <1>3, <1>5 DEF AckRequest, Acknowledged
  <1> QED
    BY <1>1, <1>4, <1>5

(* Acknowledgements come from the two handlers that have committed, and    *)
(* from no other step.                                                     *)
LEMMA AckSteps ==
  ASSUME Step
  PROVE  \/ UNCHANGED acked
         \/ UNCHANGED store /\ VersionsSame /\ \E r \in Req : Acknowledged(r)
  <1> USE DEF Step
  <1>1. \A r \in Req : WriteAt(r, "returned") => VersionsSame
    BY DEF WriteAt, VersionsSame, Parts, WriteOK
  <1>2. ASSUME NEW r \in Req, WriteAck(r)
        PROVE  /\ UNCHANGED store /\ VersionsSame
               /\ UNCHANGED acked \/ \E q \in Req : Acknowledged(q)
    <2>1. /\ UNCHANGED store /\ WriteAt(r, "returned") /\ SendClientAck(Message(r))
          /\ write[r].pc = "committed"
      BY <1>2 DEF WriteAck
    <2>2. IsTail(HeadNode) /\ CleanAt(HeadNode, Message(r)) /\ write[r].version # 0
      BY <2>1 DEF HoldersPassed, WritePassed
    <2>3. IsMessage(Message(r)) /\ Message(r).req = r
      BY Messages
    <2>4. Genuine(Message(r)) /\ Committed(Message(r))
      BY <2>2 DEF Genuine, Message, Committed, CleanAt, IsTail
    <2> QED
      BY <1>1, <2>1, <2>3, <2>4, AckEffect
  <1>3. ASSUME NEW c \in rpc, PropagateAck(c)
        PROVE  /\ UNCHANGED store /\ VersionsSame
               /\ UNCHANGED acked \/ \E q \in Req : Acknowledged(q)
    <2>1. UNCHANGED <<store, write>> /\ SendClientAck(c.msg) /\ c.pc = "committed"
      BY <1>3 DEF PropagateAck
    <2>2. CallPassed(c) /\ IsMessage(c.msg)
      BY Messages DEF HoldersPassed
    <2>3. Committed(c.msg) /\ Genuine(c.msg)
      BY <2>1, <2>2 DEF CallPassed, Committed, CleanAt, IsTail
    <2>4. VersionsSame
      BY <2>1 DEF VersionsSame
    <2> QED
      BY <2>1, <2>2, <2>3, <2>4, AckEffect
  <1> QED
    BY <1>2, <1>3, ReadsType
    DEF Next, WriteRejected, WriteAssign, WriteStep, Handling, WriteRecord,
        WriteForward, WriteCommit, Send, SendAck, PropagateStep, PropagateRecord,
        PropagateForward, PropagateCommit, PropagateAckUpstream, CallFails, AckStep,
        AckMarkClean, AckForward, AckCallFails, UnchangedByRead, Terminating, vars

LEMMA InitRefines == Init => Abs!Init
  <1> SUFFICES ASSUME Init PROVE Abs!Init
    OBVIOUS
  <1>1. /\ store = [n \in Node |-> [k \in Key |-> FreshKey]] /\ acked = {}
        /\ write = [r \in Req |-> [pc |-> "idle", version |-> 0]]
    BY DEF Init
  <1>2. \A k \in Key : /\ store[TailNode][k].committed = 0
                       /\ store[TailNode][k].committedValue = NoReq
    <2>1. \A k \in Key : store[TailNode][k] = FreshKey
      BY <1>1, Positions
    <2>2. FreshKey.committed = 0 /\ FreshKey.committedValue = NoReq
      BY DEF FreshKey
    <2> QED
      BY <2>1, <2>2
  <1>3. \A r \in Req : write[r].version = 0
    BY <1>1
  <1> QED
    BY <1>1, <1>2, <1>3 DEF Abs!Init

(* Nothing the clients can see has changed. *)
LEMMA StutterRefines ==
  ASSUME VersionsSame, CommittedSame, UNCHANGED acked
  PROVE  UNCHANGED Abs!vars
  BY DEF VersionsSame, CommittedSame, CommittedSameAt, Abs!vars

LEMMA AcknowledgeRefines ==
  ASSUME UNCHANGED store, VersionsSame, NEW r \in Req, Acknowledged(r)
  PROVE  Abs!Acknowledge(r)
  BY KeyOfAssumption DEF VersionsSame, Acknowledged, Abs!Acknowledge

(* assign_next_version gives the successor of the newest version, whatever *)
(* other handlers are running.                                             *)
LEMMA AssignRefines ==
  ASSUME IInv, NEW r \in Req, NEW n \in Node, WriteAssign(r, n)
  PROVE  Abs!Accept(r)
  <1> DEFINE v == store[HeadNode][KeyOf[r]].next
  <1>0. Parts /\ HoldersPassed /\ VersionsBelowNext /\ NextIsAssigned
    BY IInvTypes DEF IInv
  <1>1. /\ v \in Nat /\ KeyOf[r] \in Key
        /\ \A q \in Req : write[q].version \in Nat
    BY <1>0, Types, StoreType, Positions
  <1>2. /\ n = HeadNode /\ UNCHANGED acked /\ write[r].pc = "idle"
        /\ write' = [write EXCEPT ![r] = [pc |-> "assigned", version |-> v + 1]]
        /\ CommittedSame
    BY <1>0, AssignTouches, Positions DEF CommittedSame, CommittedSameAt
  <1>3. write[r].version = 0
    BY <1>0, <1>2 DEF HoldersPassed, WritePassed
  <1>4. /\ write'[r].version = v + 1
        /\ \A q \in Req : q # r => write'[q].version = write[q].version
    BY <1>0, <1>2 DEF Parts, WriteOK
  <1>5. \A q \in Req : KeyOf[q] = KeyOf[r] => write[q].version < v + 1
    BY <1>0, <1>1 DEF VersionsBelowNext
  <1>6. v + 1 = 1 \/ \E q \in Req : /\ KeyOf[q] = KeyOf[r] /\ write[q].version # 0
                                    /\ write[q].version + 1 = v + 1
    BY <1>0, <1>1 DEF NextIsAssigned
  <1>7. [q \in Req |-> write[q].version]'
           = [[q \in Req |-> write[q].version] EXCEPT ![r] = v + 1]
    BY <1>4
  <1>8. v + 1 # 0
    BY <1>1
  <1>9. UNCHANGED [k \in Key |-> [version |-> store[TailNode][k].committed,
                                  value   |-> store[TailNode][k].committedValue]]
    BY <1>2 DEF CommittedSame, CommittedSameAt
  <1> HIDE DEF v
  <1> QED
    BY <1>2, <1>3, <1>4, <1>5, <1>6, <1>7, <1>8, <1>9 DEF Abs!Accept

(* A version that becomes clean is invisible, or it is a newer write       *)
(* committed at the tail.  A second commit of a version changes nothing,   *)
(* because what was pending under a version is the write it names.         *)
LEMMA CleanRefines ==
  ASSUME IInv, Step, NEW n \in Node, NEW r \in Req, write[r].version # 0,
         Touched(n, KeyOf[r], r, write[r].version), VersionsSame, UNCHANGED acked
  PROVE  UNCHANGED Abs!vars \/ Abs!Commit(r)
  <1> DEFINE k == KeyOf[r]
             v == write[r].version
             old == store[TailNode][k]
             new == store'[TailNode][k]
  <1>1. /\ k \in Key /\ v \in Nat /\ TailNode \in Node
        /\ old.committed \in Nat /\ new.committed \in Nat
        /\ new.committed >= old.committed
        /\ VersionNamesOneWrite /\ PendingIsGenuine
    BY IInvTypes, StepFields DEF IInv
  <1>2. \A j \in Key : j # k \/ n # TailNode => CommittedSameAt(j)
    BY <1>1 DEF Touched, CommittedSameAt
  <1>3. CASE CommittedSameAt(k)
    <2>1. CommittedSame
      BY <1>2, <1>3 DEF CommittedSame
    <2> QED
      BY <2>1, StutterRefines
  <1>4. CASE ~CommittedSameAt(k)
    <2>1. n = TailNode
      BY <1>1, <1>2, <1>4
    <2>2. PICK p \in old.pending :
             new.committed = v /\ p.version = v /\ p.value = new.committedValue
      BY <1>4, <2>1 DEF Touched, CommittedSameAt
    <2>3. new.committedValue = r
      <3>1. HoldsWrite(k, new.committedValue, v)
        BY <1>1, <2>2 DEF PendingIsGenuine
      <3> QED
        BY <1>1, <3>1 DEF VersionNamesOneWrite, HoldsWrite
    <2>4. v # old.committed
      <3> SUFFICES ASSUME v = old.committed PROVE FALSE
        OBVIOUS
      <3>1. HoldsWrite(k, old.committedValue, v)
        BY <1>1 DEF VersionNamesOneWrite
      <3>2. old.committedValue = r
        BY <1>1, <3>1 DEF VersionNamesOneWrite, HoldsWrite
      <3> QED
        BY <1>4, <2>2, <2>3, <3>2 DEF CommittedSameAt
    <2>5. v > old.committed
      BY <1>1, <2>2, <2>4
    <2>6. \A j \in Key \ {k} : CommittedSameAt(j)
      BY <1>2
    <2>7. [j \in Key |-> [version |-> store[TailNode][j].committed,
                          value   |-> store[TailNode][j].committedValue]]'
            = [[j \in Key |-> [version |-> store[TailNode][j].committed,
                               value   |-> store[TailNode][j].committedValue]]
                 EXCEPT ![k] = [version |-> v, value |-> r]]
      BY <1>1, <2>2, <2>3, <2>6 DEF CommittedSameAt
    <2>8. UNCHANGED [q \in Req |-> write[q].version]
      BY DEF VersionsSame
    <2> QED
      BY <1>1, <2>5, <2>7, <2>8 DEF Abs!Commit
  <1> QED
    BY <1>3, <1>4

LEMMA StepRefines == IInv /\ [Next]_vars => [Abs!Next]_(Abs!vars)
  <1> SUFFICES ASSUME IInv, [Next]_vars PROVE [Abs!Next]_(Abs!vars)
    OBVIOUS
  <1>0. Step
    BY StepOfIInv
  <1>1. ASSUME NEW r \in Req, NEW n \in Node, WriteAssign(r, n)
        PROVE  [Abs!Next]_(Abs!vars)
    BY <1>1, AssignRefines DEF Abs!Next
  <1>2. CASE UNCHANGED store /\ VersionsSame /\ \E r \in Req : Acknowledged(r)
    BY <1>2, AcknowledgeRefines DEF Abs!Next
  <1>3. CASE UNCHANGED store /\ VersionsSame /\ UNCHANGED acked
    BY <1>3, StutterRefines DEF CommittedSame, CommittedSameAt
  <1>4. ASSUME VersionsSame, UNCHANGED acked,
               NEW n \in Node, NEW r \in Req, write[r].version # 0,
               Touched(n, KeyOf[r], r, write[r].version)
        PROVE  [Abs!Next]_(Abs!vars)
    BY <1>0, <1>4, CleanRefines DEF Abs!Next
  <1>5. VersionsSame \/ \E r \in Req, n \in Node : WriteAssign(r, n)
    BY <1>0, VersionsChange DEF VersionsSame
  <1> QED
    BY <1>0, <1>1, <1>2, <1>3, <1>4, <1>5, AckSteps, StoreSteps
    DEF Step, Arrives, BecomesClean

(* CRAQ implements the register of the clients: the committed value of a   *)
(* key is the clean one of the tail, committed versions only grow, and     *)
(* only what is committed is acknowledged.                                 *)
THEOREM Refinement == Spec => Register
  <1>1. Spec => Abs!Spec
    BY InitRefines, StepRefines, Invariance, PTL DEF Spec, Abs!Spec
  <1> QED
    BY <1>1 DEF Register
=============================================================================
