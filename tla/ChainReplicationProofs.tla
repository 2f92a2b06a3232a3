----------------------- MODULE ChainReplicationProofs -----------------------
(***************************************************************************)
(* Theorems about CHAIN mode, for every chain length, every set of keys    *)
(* and writes, every pool of workers, and whether or not calls fail.       *)
(*                                                                         *)
(* ChainReplication!IInv is inductive.  The step lemmas below say what     *)
(* each action does to the variables; the preservation lemmas then take    *)
(* the conjuncts of IInv one at a time.                                    *)
(***************************************************************************)
EXTENDS ChainReplication, ReplicaServerProofs

(* The layers of the type invariant and of the initial condition are       *)
(* expanded wherever TypeOK and Init are.                                  *)
USE DEF ChainTypeOK, ServerTypeOK, ChainInit, ServerInit

(* The head and the tail are nodes, and so is the successor of any other. *)
LEMMA Positions ==
  /\ HeadNode \in Node /\ TailNode \in Node
  /\ \A n \in Node : ~IsTail(n) => Successor(n) \in Node
  /\ \A n \in Node : IsHead(n) <=> n = HeadNode
  /\ Node \subseteq Nat
  BY ChainAssumption DEF HeadNode, TailNode, IsTail, IsHead, Successor

-----------------------------------------------------------------------------
(* Type correctness *)

LEMMA InitTypeOK == Init => TypeOK
  <1> SUFFICES ASSUME Init PROVE TypeOK
    OBVIOUS
  <1>1. DispatcherTypeOK
    <2>1. DispatcherInit
      BY DEF Init
    <2>2. queue \in [Node -> Seq(PropagateTask)] /\ rpc \subseteq Call
      BY <2>1 DEF DispatcherInit
    <2>3. lost \in BOOLEAN
      BY <2>1 DEF DispatcherInit
    <2> QED
      BY <2>2, <2>3 DEF DispatcherTypeOK
  <1>2. store \in [Node -> [Key -> KeyState]] /\ acked = {}
    BY FreshKeyType DEF Init
  <1>3. write \in [Req -> [pc: {"idle", "rejected", "assigned", "recorded",
                                "committed", "returned"},
                           version: Nat]]
    BY DEF Init
  <1>4. answer \in [Key -> [found: BOOLEAN, value: Req \cup {NoReq}, version: Nat]]
    BY DEF Init, NotFound
  <1> QED
    BY <1>1, <1>2, <1>3, <1>4 DEF TypeOK

(* A message a handler sends is well formed. *)
LEMMA MessageType ==
  ASSUME TypeOK, NEW r \in Req
  PROVE  Message(r) \in PropagateRequest
  BY Positions DEF TypeOK, Message, PropagateRequest

LEMMA SendClientAckType ==
  ASSUME TypeOK, NEW m \in PropagateRequest, SendClientAck(m)
  PROVE  /\ acked' \subseteq [req : Req, version : Nat]
         /\ acked' \subseteq acked \cup {AckRequest(m)}
         /\ lost' \in BOOLEAN
  <1>1. /\ acked' \subseteq [req : Req, version : Nat]
        /\ acked' \subseteq acked \cup {AckRequest(m)}
    BY DEF TypeOK, SendClientAck, AckRequest, PropagateRequest
  <1>2. lost' \in BOOLEAN
    <2>1. lost \in BOOLEAN
      BY DEF TypeOK, DispatcherTypeOK
    <2>2. lost' = lost \/ lost' = TRUE
      BY DEF SendClientAck
    <2> QED
      BY <2>1, <2>2
  <1> QED
    BY <1>1, <1>2

LEMMA NextTypeOK == TypeOK /\ [Next]_vars => TypeOK'
  <1> SUFFICES ASSUME TypeOK, [Next]_vars PROVE TypeOK'
    OBVIOUS
  <1> USE DEF TypeOK
  <1>0. StoreOK /\ DispatcherTypeOK
    BY DEF StoreOK
  <1>k. \A r \in Req : KeyOf[r] \in Key
    BY KeyOfAssumption
  <1>s. \A n \in Node, k \in Key : store[n][k] \in KeyState
    OBVIOUS
  <1>v. \A r \in Req : write[r].version \in Nat
    OBVIOUS
  <1>c. ASSUME NEW c \in rpc
        PROVE  /\ c.from \in Node /\ c.to \in Node /\ c.msg \in PropagateRequest
               /\ c.msg.req \in Req /\ c.msg.version \in Nat
    BY <1>0 DEF DispatcherTypeOK, Call, PropagateRequest
  <1>1. ASSUME NEW r \in Req, NEW n \in Node, WriteRejected(r, n) PROVE TypeOK'
    BY <1>1, <1>0 DEF WriteRejected, WriteAt, DispatcherTypeOK
  <1>2. ASSUME NEW r \in Req, NEW n \in Node, WriteAssign(r, n) PROVE TypeOK'
    <2> DEFINE s == AssignNextVersion(store[n][KeyOf[r]])
    <2>1. s \in KeyState /\ s.next \in Nat
      BY <1>k, <1>s, AssignNextVersionEffect DEF KeyState
    <2>2. UpdateKey(n, KeyOf[r], s)
          /\ write' = [write EXCEPT ![r] = [pc |-> "assigned", version |-> s.next]]
      BY <1>2 DEF WriteAssign
    <2> HIDE DEF s
    <2>3. StoreOK'
      BY <2>1, <2>2, <1>0, <1>k, UpdateKeyEffect
    <2> QED
      BY <2>1, <2>2, <2>3, <1>2 DEF WriteAssign, StoreOK, DispatcherTypeOK
  <1>3. ASSUME NEW r \in Req, WriteRecord(r) PROVE TypeOK'
    <2>1. RecordLocalWriteIfNewer(store[HeadNode][KeyOf[r]], r, write[r].version)
             \in KeyState
      BY <1>k, <1>s, <1>v, Positions, RecordIfNewerEffect
    <2>2. StoreOK'
      BY <2>1, <1>0, <1>k, <1>3, Positions, UpdateKeyEffect DEF WriteRecord
    <2> QED
      BY <2>2, <1>3 DEF WriteRecord, WriteAt, StoreOK, DispatcherTypeOK
  <1>4. ASSUME NEW r \in Req, WriteForward(r) PROVE TypeOK'
    <2>1. queue' \in [Node -> Seq(PropagateTask)]
      BY <1>0, <1>4, Positions, MessageType, EnqueueEffect DEF WriteForward
    <2> QED
      BY <2>1, <1>4 DEF WriteForward, WriteAt, DispatcherTypeOK
  <1>5. ASSUME NEW r \in Req, WriteCommit(r) PROVE TypeOK'
    <2>1. MarkVersionCommittedIfNewer(store[HeadNode][KeyOf[r]], r, write[r].version)
             \in KeyState
      BY <1>k, <1>s, <1>v, Positions, MarkCommittedEffect
    <2>2. StoreOK'
      BY <2>1, <1>0, <1>k, <1>5, Positions, UpdateKeyEffect DEF WriteCommit
    <2> QED
      BY <2>2, <1>5 DEF WriteCommit, WriteAt, StoreOK, DispatcherTypeOK
  <1>6. ASSUME NEW r \in Req, WriteAck(r) PROVE TypeOK'
    <2>1. acked' \subseteq [req : Req, version : Nat] /\ lost' \in BOOLEAN
      BY <1>6, MessageType, SendClientAckType DEF WriteAck
    <2> QED
      BY <2>1, <1>6 DEF WriteAck, WriteAt, DispatcherTypeOK
  <1>7. ASSUME NEW n \in Node, Send(n) PROVE TypeOK'
    BY <1>7, <1>0, WorkerSendEffect DEF Send, DispatcherTypeOK
  <1>8. ASSUME NEW c \in rpc, PropagateRecord(c) PROVE TypeOK'
    <2> DEFINE k == KeyOf[c.msg.req]
               s == RecordLocalWriteIfNewer(store[c.to][k], c.msg.req, c.msg.version)
    <2>1. k \in Key /\ s \in KeyState
      BY <1>c, <1>k, <1>s, RecordIfNewerEffect
    <2>2. UpdateKey(c.to, k, s) /\ Advance(c, "recorded")
      BY <1>8 DEF PropagateRecord
    <2> HIDE DEF k, s
    <2>3. StoreOK'
      BY <2>1, <2>2, <1>0, <1>c, UpdateKeyEffect
    <2>4. rpc' \subseteq Call
      BY <2>2, <1>0, AdvanceEffect
    <2> QED
      BY <2>3, <2>4, <1>8 DEF PropagateRecord, StoreOK, DispatcherTypeOK
  <1>9. ASSUME NEW c \in rpc, PropagateForward(c) PROVE TypeOK'
    <2>1. queue' \in [Node -> Seq(PropagateTask)]
      BY <1>0, <1>c, <1>9, Positions, EnqueueEffect DEF PropagateForward
    <2> QED
      BY <2>1, <1>9 DEF PropagateForward, Return, DispatcherTypeOK
  <1>10. ASSUME NEW c \in rpc, PropagateCommit(c) PROVE TypeOK'
    <2> DEFINE k == KeyOf[c.msg.req]
               s == MarkVersionCommittedIfNewer(store[c.to][k], c.msg.req, c.msg.version)
    <2>1. k \in Key /\ s \in KeyState
      BY <1>c, <1>k, <1>s, MarkCommittedEffect
    <2>2. UpdateKey(c.to, k, s) /\ Advance(c, "committed")
      BY <1>10 DEF PropagateCommit
    <2> HIDE DEF k, s
    <2>3. StoreOK'
      BY <2>1, <2>2, <1>0, <1>c, UpdateKeyEffect
    <2>4. rpc' \subseteq Call
      BY <2>2, <1>0, AdvanceEffect
    <2> QED
      BY <2>3, <2>4, <1>10 DEF PropagateCommit, StoreOK, DispatcherTypeOK
  <1>11. ASSUME NEW c \in rpc, PropagateAck(c) PROVE TypeOK'
    <2>1. acked' \subseteq [req : Req, version : Nat] /\ lost' \in BOOLEAN
      BY <1>c, <1>11, SendClientAckType DEF PropagateAck
    <2> QED
      BY <2>1, <1>11 DEF PropagateAck, Return, DispatcherTypeOK
  <1>12. ASSUME NEW c \in rpc, CallFails(c) PROVE TypeOK'
    BY <1>12, <1>0, CallFailsEffect DEF CallFails, DispatcherTypeOK
  <1>13. ASSUME NEW n \in Node, NEW k \in Key, HandleRead(n, k) PROVE TypeOK'
    <2>1. ReadCommitted(store[n][k]) \in
             [found: BOOLEAN, value: Req \cup {NoReq}, version: Nat]
      BY <1>s DEF ReadCommitted, NotFound, Found, KeyState
    <2> QED
      BY <2>1, <1>13 DEF HandleRead, DispatcherTypeOK
  <1>14. CASE UNCHANGED vars
    BY <1>14 DEF vars, DispatcherTypeOK
  <1> QED
    BY <1>1, <1>2, <1>3, <1>4, <1>5, <1>6, <1>7, <1>8, <1>9, <1>10, <1>11, <1>12,
       <1>13, <1>14
    DEF Next, WriteStep, Handling, PropagateStep, Terminating

(* Type correctness of CHAIN mode. *)
THEOREM TypeCorrect == Spec => []TypeOK
  BY InitTypeOK, NextTypeOK, PTL DEF Spec

-----------------------------------------------------------------------------
(* What the steps do to the store and to the versions of the writes *)

(* A call's message, as the handler reads it *)
LEMMA CallType ==
  ASSUME TypeOK, NEW c \in rpc
  PROVE  /\ c \in Call
         /\ c.from \in Node /\ c.to \in Node /\ c.msg \in PropagateRequest
         /\ c.msg.req \in Req /\ c.msg.version \in Nat
  BY DEF TypeOK, DispatcherTypeOK, Call, PropagateRequest

(* The four steps that record or commit. *)
LEMMA StepsRaise ==
  ASSUME TypeOK
  PROVE  /\ \A r \in Req : WriteRecord(r) \/ WriteCommit(r)
              => Raised(HeadNode, KeyOf[r], r, write[r].version)
         /\ \A c \in rpc : PropagateRecord(c) \/ PropagateCommit(c)
              => Raised(c.to, KeyOf[c.msg.req], c.msg.req, c.msg.version)
  <1>1. StoreOK
    BY DEF TypeOK, StoreOK
  <1>2. \A r \in Req : write[r].version \in Nat
    BY DEF TypeOK
  <1>3. ASSUME NEW r \in Req, WriteRecord(r) \/ WriteCommit(r)
        PROVE  Raised(HeadNode, KeyOf[r], r, write[r].version)
    BY <1>1, <1>2, <1>3, Positions, RecordRaises, CommitRaises
    DEF WriteRecord, WriteCommit
  <1>4. ASSUME NEW c \in rpc, PropagateRecord(c) \/ PropagateCommit(c)
        PROVE  Raised(c.to, KeyOf[c.msg.req], c.msg.req, c.msg.version)
    BY <1>1, <1>4, CallType, RecordRaises, CommitRaises
    DEF PropagateRecord, PropagateCommit
  <1> QED
    BY <1>3, <1>4

(* assign_next_version changes only the counter of the head. *)
LEMMA AssignRaises ==
  ASSUME TypeOK, NEW r \in Req, NEW n \in Node, WriteAssign(r, n)
  PROVE  /\ n = HeadNode
         /\ StoreGrows
         /\ write' = [write EXCEPT ![r] =
                        [pc |-> "assigned", version |-> store[n][KeyOf[r]].next + 1]]
         /\ store'[n][KeyOf[r]].next = store[n][KeyOf[r]].next + 1
         /\ \A m \in Node, j \in Key :
               /\ store'[m][j].seen = store[m][j].seen
               /\ store'[m][j].seenValue = store[m][j].seenValue
               /\ store'[m][j].committed = store[m][j].committed
               /\ store'[m][j].committedValue = store[m][j].committedValue
  <1> DEFINE k == KeyOf[r]
             t == AssignNextVersion(store[n][k])
  <1>1. k \in Key /\ store[n][k] \in KeyState /\ StoreOK
    BY KeyOfAssumption DEF StoreOK, TypeOK
  <1>2. /\ t \in KeyState
        /\ t.next = store[n][k].next + 1
        /\ t.seen = store[n][k].seen /\ t.seenValue = store[n][k].seenValue
        /\ t.committed = store[n][k].committed
        /\ t.committedValue = store[n][k].committedValue
    BY <1>1, AssignNextVersionEffect
  <1>3. /\ UpdateKey(n, k, t)
        /\ write' = [write EXCEPT ![r] = [pc |-> "assigned", version |-> t.next]]
        /\ n = HeadNode
    BY DEF WriteAssign, IsHead
  <1> HIDE DEF t
  <1>4. /\ store'[n][k] = t
        /\ \A m \in Node, j \in Key : m # n \/ j # k => store'[m][j] = store[m][j]
    BY <1>1, <1>2, <1>3, UpdateKeyEffect
  <1>5. \A m \in Node, j \in Key :
           /\ store[m][j].next \in Nat /\ store[m][j].seen \in Nat
           /\ store[m][j].committed \in Nat
    BY <1>1, KeyStateFields DEF StoreOK
  <1>6. StoreGrows
    BY <1>1, <1>2, <1>4, <1>5 DEF StoreGrows, AtOrAbove
  <1> QED
    BY <1>2, <1>3, <1>4, <1>6

-----------------------------------------------------------------------------
(* What is recorded stays recorded *)

VersionsStay ==
    \A r \in Req : write[r].version # 0 => write'[r].version = write[r].version

LEMMA StepGrows ==
  ASSUME TypeOK, HoldersRecorded, [Next]_vars
  PROVE  StoreGrows /\ VersionsStay
  <1>1. /\ \A n \in Node, k \in Key : store[n][k] \in KeyState
        /\ \A r \in Req : write[r].version = 0 <=> write[r].pc \in {"idle", "rejected"}
    BY DEF TypeOK, HoldersRecorded, WriteRecorded
  <1>2. UNCHANGED store => StoreGrows
    BY <1>1, KeyStateFields DEF StoreGrows, AtOrAbove
  <1>3. UNCHANGED write => VersionsStay
    BY DEF VersionsStay
  <1>4. \A r \in Req : \A pc : WriteAt(r, pc) => VersionsStay
    BY DEF WriteAt, VersionsStay, TypeOK
  <1>5. ASSUME NEW r \in Req, NEW n \in Node, WriteAssign(r, n)
        PROVE  StoreGrows /\ VersionsStay
    BY <1>1, <1>5, AssignRaises DEF VersionsStay, WriteAssign, TypeOK
  <1>6. ASSUME NEW r \in Req, NEW n \in Node, WriteRejected(r, n)
        PROVE  StoreGrows /\ VersionsStay
    BY <1>2, <1>4, <1>6 DEF WriteRejected
  <1>7. ASSUME NEW r \in Req, WriteStep(r)
        PROVE  StoreGrows /\ VersionsStay
    BY <1>2, <1>4, <1>7, StepsRaise
    DEF WriteStep, WriteRecord, WriteForward, WriteCommit, WriteAck, Raised
  <1>8. ASSUME NEW c \in rpc, PropagateStep(c)
        PROVE  StoreGrows /\ VersionsStay
    BY <1>2, <1>3, <1>8, StepsRaise
    DEF PropagateStep, PropagateRecord, PropagateForward, PropagateCommit,
        PropagateAck, Raised
  <1> QED
    BY <1>2, <1>3, <1>5, <1>6, <1>7, <1>8
    DEF Next, Handling, Send, CallFails, HandleRead, Terminating, vars

(* A message of a genuine write: a PropagateRequest or an AckRequest *)
IsMessage(m) == m.req \in Req /\ m.version \in Nat

LEMMA RecordedStays ==
  ASSUME TypeOK, TypeOK', StoreGrows, VersionsStay
  PROVE  \A m : IsMessage(m) =>
            /\ Genuine(m) => Genuine(m)'
            /\ Committed(m) => Committed(m)'
            /\ \A n \in Node : Recorded(n, m) => Recorded(n, m)'
  <1>1. \A n \in Node, k \in Key :
           /\ store[n][k].seen \in Nat /\ store'[n][k].seen \in Nat
           /\ store[n][k].committed \in Nat /\ store'[n][k].committed \in Nat
           /\ store'[n][k].seen >= store[n][k].seen
           /\ store'[n][k].committed >= store[n][k].committed
    <2>1. \A n \in Node, k \in Key :
             store[n][k] \in KeyState /\ store'[n][k] \in KeyState
      BY DEF TypeOK
    <2> QED
      BY <2>1, KeyStateFields DEF StoreGrows, AtOrAbove
  <1>2. \A m : IsMessage(m) => KeyOf[m.req] \in Key
    BY KeyOfAssumption DEF IsMessage
  <1>3. \A m : IsMessage(m) => (Genuine(m) => Genuine(m)')
    BY DEF IsMessage, Genuine, VersionsStay
  <1>4. \A m : IsMessage(m) => (Committed(m) => Committed(m)')
    BY <1>1, <1>2, Positions DEF IsMessage, Committed
  <1>5. \A m : IsMessage(m) => \A n \in Node : Recorded(n, m) => Recorded(n, m)'
    BY <1>1, <1>2 DEF IsMessage, Recorded
  <1> QED
    BY <1>3, <1>4, <1>5

-----------------------------------------------------------------------------
(* HoldersRecorded *)

(* The messages of the tasks, calls and handlers are messages. *)
LEMMA Messages ==
  ASSUME TypeOK
  PROVE  /\ \A n \in Node : \A t \in Tasks(n) : t \in PropagateTask /\ IsMessage(t.msg)
         /\ \A c \in rpc : IsMessage(c.msg)
         /\ \A r \in Req : IsMessage(Message(r)) /\ Message(r).req = r
  <1>1. ASSUME NEW n \in Node, NEW t \in Tasks(n)
        PROVE  t \in PropagateTask /\ IsMessage(t.msg)
    <2>1. queue[n] \in Seq(PropagateTask)
      BY DEF TypeOK, DispatcherTypeOK
    <2>2. t \in PropagateTask
      BY <1>1, <2>1 DEF Tasks
    <2> QED
      BY <2>2 DEF PropagateTask, PropagateRequest, IsMessage
  <1>2. \A c \in rpc : IsMessage(c.msg)
    BY CallType DEF IsMessage
  <1>3. \A r \in Req : IsMessage(Message(r)) /\ Message(r).req = r
    BY DEF IsMessage, Message, TypeOK
  <1> QED
    BY <1>1, <1>2, <1>3

(* A task enqueued or taken keeps every queue recorded. *)
LEMMA TasksRecorded ==
  ASSUME TypeOK, TypeOK', HoldersRecorded, [Next]_vars
  PROVE  \A n \in Node : \A t \in Tasks(n)' : TaskRecorded(n, t)'
  <1>1. StoreGrows /\ VersionsStay
    BY StepGrows
  <1>2. ASSUME NEW n \in Node, NEW t \in Tasks(n) PROVE TaskRecorded(n, t)'
    <2>1. TaskRecorded(n, t) /\ IsMessage(t.msg)
      BY Messages DEF HoldersRecorded
    <2>2. Genuine(t.msg)' /\ Recorded(n, t.msg)'
      BY <1>1, <2>1, RecordedStays DEF TaskRecorded
    <2> QED
      BY <2>1, <2>2 DEF TaskRecorded
  <1>3. UNCHANGED queue => \A n \in Node : Tasks(n)' = Tasks(n)
    BY DEF Tasks
  <1>4. DispatcherTypeOK
    BY DEF TypeOK
  <1>5. ASSUME NEW r \in Req, WriteForward(r)
        PROVE  \A n \in Node : \A t \in Tasks(n)' : TaskRecorded(n, t)'
    <2> DEFINE new == [successor |-> Successor(HeadNode), msg |-> Message(r)]
    <2>1. \A n \in Node : \A t \in Tasks(n)' :
             t \in Tasks(n) \/ (n = HeadNode /\ t = new)
      BY <1>4, <1>5, Positions, MessageType, EnqueueEffect DEF WriteForward
    <2>2. Genuine(Message(r)) /\ Recorded(HeadNode, Message(r)) /\ IsMessage(Message(r))
      BY <1>5, Messages
      DEF WriteForward, HoldersRecorded, WriteRecorded, Genuine, Message
    <2>3. UNCHANGED store
          /\ write'[r].version = write[r].version
      BY <1>5 DEF WriteForward, WriteAt, TypeOK
    <2>4. \A t : t = new => TaskRecorded(HeadNode, t)'
      BY <1>5, <2>2, <2>3
      DEF TaskRecorded, Genuine, Recorded, WriteForward, Message
    <2> QED
      BY <1>2, <2>1, <2>4
  <1>6. ASSUME NEW c \in rpc, PropagateForward(c)
        PROVE  \A n \in Node : \A t \in Tasks(n)' : TaskRecorded(n, t)'
    <2> DEFINE new == [successor |-> Successor(c.to), msg |-> c.msg]
    <2>1. \A n \in Node : \A t \in Tasks(n)' :
             t \in Tasks(n) \/ (n = c.to /\ t = new)
      BY <1>4, <1>6, Positions, CallType, EnqueueEffect DEF PropagateForward
    <2>2. /\ Genuine(c.msg) /\ Recorded(c.to, c.msg) /\ IsMessage(c.msg)
          /\ c.to \in Node /\ ~IsTail(c.to)
      BY <1>6, Messages, CallType DEF PropagateForward, HoldersRecorded, CallRecorded
    <2>3. \A m : m = c.msg => Genuine(m)' /\ Recorded(c.to, m)'
      BY <1>1, <2>2, RecordedStays
      DEF Genuine, Recorded, PropagateForward
    <2>4. \A n, t : n = c.to /\ t = new => TaskRecorded(n, t)'
      BY <2>2, <2>3 DEF TaskRecorded
    <2> QED
      BY <1>2, <2>1, <2>4
  <1>7. ASSUME NEW n \in Node, Send(n)
        PROVE  \A p \in Node : Tasks(p)' \subseteq Tasks(p)
    BY <1>4, <1>7, WorkerSendEffect DEF Send
  <1>8. ASSUME NEW c \in rpc, CallFails(c) PROVE UNCHANGED queue
    BY <1>8 DEF CallFails, RpcLost, RpcAbandoned
  <1> QED
    BY <1>2, <1>3, <1>5, <1>6, <1>7, <1>8
    DEF Next, WriteRejected, WriteAssign, WriteStep, Handling, WriteRecord, WriteCommit,
        WriteAck, PropagateStep, PropagateRecord, PropagateCommit, PropagateAck,
        HandleRead, Terminating, vars

(* A call started, advanced or failed keeps every call recorded. *)
LEMMA CallsRecorded ==
  ASSUME TypeOK, TypeOK', HoldersRecorded, [Next]_vars
  PROVE  \A d \in rpc' : CallRecorded(d)'
  <1>1. StoreGrows /\ VersionsStay
    BY StepGrows
  <1>d. DispatcherTypeOK
    BY DEF TypeOK
  <1>n. /\ \A c \in rpc : CallRecorded(c) /\ IsMessage(c.msg)
                          /\ c.from \in Node /\ c.to \in Node
    BY Messages, CallType DEF HoldersRecorded
  <1>2. ASSUME NEW c \in rpc, NEW d, d.from = c.from, d.to = c.to, d.msg = c.msg,
               d.pc = c.pc
        PROVE  CallRecorded(d)'
    <2>1. CallRecorded(c) /\ IsMessage(d.msg) /\ d.from \in Node /\ d.to \in Node
      BY <1>2, <1>n
    <2>2. /\ Genuine(d.msg)' /\ Recorded(d.from, d.msg)'
          /\ d.pc # "sent" => Recorded(d.to, d.msg)'
          /\ d.pc = "committed" => Committed(d.msg)'
      BY <1>1, <1>2, <2>1, RecordedStays
      DEF CallRecorded, Genuine, Recorded, Committed
    <2> QED
      BY <1>2, <2>1, <2>2 DEF CallRecorded
  <1>3. \A c \in rpc : CallRecorded(c)'
    BY <1>2
  <1>4. UNCHANGED rpc => \A d \in rpc' : CallRecorded(d)'
    BY <1>3
  <1>5. ASSUME NEW n \in Node, Send(n) PROVE \A d \in rpc' : CallRecorded(d)'
    <2>1. PICK t \in Tasks(n) :
             rpc' = rpc \cup {[from |-> n, to |-> t.successor, msg |-> t.msg,
                               pc |-> "sent", held |-> TRUE]}
      BY <1>5, <1>d, WorkerSendEffect DEF Send
    <2>2. TaskRecorded(n, t) /\ IsMessage(t.msg)
      BY Messages DEF HoldersRecorded
    <2>3. UNCHANGED <<store, write>>
      BY <1>5 DEF Send
    <2>4. \A d : d = [from |-> n, to |-> t.successor, msg |-> t.msg,
                      pc |-> "sent", held |-> TRUE] => CallRecorded(d)'
      BY <2>2, <2>3 DEF TaskRecorded, CallRecorded, Genuine, Recorded
    <2> QED
      BY <1>3, <2>1, <2>4
  <1>6. ASSUME NEW c \in rpc, PropagateRecord(c)
        PROVE  \A d \in rpc' : CallRecorded(d)'
    <2>1. Raised(c.to, KeyOf[c.msg.req], c.msg.req, c.msg.version)
      BY <1>6, StepsRaise
    <2>2. \A d \in rpc' : \/ d \in rpc
                          \/ /\ d.from = c.from /\ d.to = c.to
                             /\ d.msg = c.msg /\ d.pc = "recorded"
      BY <1>6, <1>d, AdvanceEffect DEF PropagateRecord
    <2>3. ASSUME NEW d, d.from = c.from, d.to = c.to, d.msg = c.msg, d.pc = "recorded"
          PROVE  CallRecorded(d)'
      <3>1. CallRecorded(c) /\ IsMessage(d.msg) /\ d.from \in Node /\ d.to \in Node
        BY <2>3, <1>n
      <3>2. Genuine(d.msg)' /\ Recorded(d.from, d.msg)'
        BY <1>1, <2>3, <3>1, RecordedStays DEF CallRecorded, Genuine, Recorded
      <3>3. Recorded(d.to, d.msg)'
        BY <2>1, <2>3 DEF Recorded, Raised
      <3> QED
        BY <2>3, <3>1, <3>2, <3>3 DEF CallRecorded
    <2> QED
      BY <1>3, <2>2, <2>3
  <1>7. ASSUME NEW c \in rpc, PropagateCommit(c)
        PROVE  \A d \in rpc' : CallRecorded(d)'
    <2>1. /\ store'[c.to][KeyOf[c.msg.req]].committed >= c.msg.version
          /\ IsTail(c.to) /\ c.pc = "recorded"
      <3>1. StoreOK
        BY DEF TypeOK, StoreOK
      <3> QED
        BY <1>7, <3>1, CallType, CommitRaises DEF PropagateCommit
    <2>2. \A d \in rpc' : \/ d \in rpc
                          \/ /\ d.from = c.from /\ d.to = c.to
                             /\ d.msg = c.msg /\ d.pc = "committed"
      BY <1>7, <1>d, AdvanceEffect DEF PropagateCommit
    <2>3. ASSUME NEW d, d.from = c.from, d.to = c.to, d.msg = c.msg, d.pc = "committed"
          PROVE  CallRecorded(d)'
      <3>1. CallRecorded(c) /\ IsMessage(d.msg) /\ d.from \in Node /\ d.to \in Node
        BY <2>3, <1>n
      <3>2. Genuine(d.msg)' /\ Recorded(d.from, d.msg)' /\ Recorded(d.to, d.msg)'
        BY <1>1, <2>1, <2>3, <3>1, RecordedStays DEF CallRecorded, Genuine, Recorded
      <3>3. Committed(d.msg)' /\ IsTail(d.to)
        BY <2>1, <2>3 DEF Committed, IsTail
      <3> QED
        BY <2>3, <3>1, <3>2, <3>3 DEF CallRecorded
    <2> QED
      BY <1>3, <2>2, <2>3
  <1>8. ASSUME NEW c \in rpc, PropagateForward(c) \/ PropagateAck(c)
        PROVE  \A d \in rpc' : CallRecorded(d)'
    BY <1>3, <1>8 DEF PropagateForward, PropagateAck, Return
  <1>9. ASSUME NEW c \in rpc, CallFails(c) PROVE \A d \in rpc' : CallRecorded(d)'
    <2>1. \A d \in rpc' : \E b \in rpc :
             d.from = b.from /\ d.to = b.to /\ d.msg = b.msg /\ d.pc = b.pc
      BY <1>9, <1>d, CallFailsEffect DEF CallFails
    <2> QED
      BY <1>2, <2>1
  <1> QED
    BY <1>4, <1>5, <1>6, <1>7, <1>8, <1>9
    DEF Next, WriteRejected, WriteAssign, WriteStep, Handling, WriteRecord, WriteForward,
        WriteCommit, WriteAck, PropagateStep, HandleRead, Terminating, vars

(* A step of handle_write does what its program counter then says. *)
LEMMA WritesRecorded ==
  ASSUME TypeOK, TypeOK', HoldersRecorded, [Next]_vars
  PROVE  \A r \in Req : WriteRecorded(r)'
  <1>1. StoreGrows /\ VersionsStay
    BY StepGrows
  <1>2. ASSUME NEW r \in Req, write'[r] = write[r] PROVE WriteRecorded(r)'
    <2>1. WriteRecorded(r) /\ IsMessage(Message(r)) /\ Message(r)' = Message(r)
      BY <1>2, Messages DEF HoldersRecorded, Message
    <2>2. \A m : m = Message(r) =>
             /\ Recorded(HeadNode, m) => Recorded(HeadNode, m)'
             /\ Committed(m) => Committed(m)'
      BY <1>1, <2>1, RecordedStays, Positions
    <2>3. /\ Recorded(HeadNode, Message(r)) => Recorded(HeadNode, Message(r))'
          /\ Committed(Message(r)) => Committed(Message(r))'
      BY <2>1, <2>2 DEF Recorded, Committed
    <2> QED
      BY <1>2, <2>1, <2>3 DEF WriteRecorded, IsTail, HeadNode, TailNode
  <1>3. ASSUME NEW r \in Req, NEW pc, WriteAt(r, pc),
               \A q \in Req : q = r => WriteRecorded(q)'
        PROVE  \A q \in Req : WriteRecorded(q)'
    BY <1>2, <1>3 DEF WriteAt, TypeOK
  <1>4. ASSUME NEW r \in Req, NEW n \in Node, WriteAssign(r, n)
        PROVE  \A q \in Req : WriteRecorded(q)'
    <2>1. write' = [write EXCEPT ![r] =
                      [pc |-> "assigned", version |-> store[n][KeyOf[r]].next + 1]]
      BY <1>4, AssignRaises
    <2>2. store[n][KeyOf[r]].next \in Nat
      BY KeyStateFields, KeyOfAssumption DEF TypeOK
    <2>3. WriteRecorded(r)'
      BY <2>1, <2>2 DEF WriteRecorded, TypeOK
    <2> QED
      BY <1>2, <2>1, <2>3 DEF TypeOK
  <1>5. ASSUME NEW r \in Req, NEW n \in Node, WriteRejected(r, n)
        PROVE  \A q \in Req : WriteRecorded(q)'
    <2>1. WriteRecorded(r)'
      BY <1>5 DEF WriteRejected, WriteAt, WriteRecorded, HoldersRecorded, TypeOK
    <2> QED
      BY <1>3, <1>5, <2>1 DEF WriteRejected
  <1>6. ASSUME NEW r \in Req, WriteRecord(r)
        PROVE  \A q \in Req : WriteRecorded(q)'
    <2>1. /\ write'[r].pc = "recorded" /\ write'[r].version = write[r].version
          /\ write[r].pc = "assigned"
      BY <1>6 DEF WriteRecord, WriteAt, TypeOK
    <2>2. Recorded(HeadNode, Message(r))'
      BY <1>6, <2>1, StepsRaise DEF Raised, Recorded, Message
    <2>3. WriteRecorded(r)'
      BY <2>1, <2>2 DEF WriteRecorded, HoldersRecorded
    <2> QED
      BY <1>3, <1>6, <2>3 DEF WriteRecord
  <1>7. ASSUME NEW r \in Req, WriteForward(r) \/ WriteCommit(r) \/ WriteAck(r)
        PROVE  \A q \in Req : WriteRecorded(q)'
    <2>1. /\ write'[r].pc \in {"committed", "returned"}
          /\ write'[r].version = write[r].version
          /\ write[r].pc \in {"recorded", "committed"}
          /\ Message(r)' = Message(r)
          /\ write'[r].pc = "committed" <=> WriteCommit(r)
      BY <1>7 DEF WriteForward, WriteCommit, WriteAck, WriteAt, TypeOK, Message
    <2>2. Recorded(HeadNode, Message(r))'
      <3>1. Recorded(HeadNode, Message(r)) /\ IsMessage(Message(r))
        BY <2>1, Messages DEF HoldersRecorded, WriteRecorded
      <3>2. \A m : m = Message(r) => Recorded(HeadNode, m)'
        BY <1>1, <3>1, RecordedStays, Positions DEF Recorded
      <3> QED
        BY <2>1, <3>2 DEF Recorded
    <2>3. WriteCommit(r) => IsTail(HeadNode) /\ Committed(Message(r))'
      <3>1. StoreOK /\ write[r].version \in Nat
        BY DEF TypeOK, StoreOK
      <3>2. WriteCommit(r) =>
               store'[HeadNode][KeyOf[r]].committed >= write[r].version
        BY <3>1, Positions, CommitRaises DEF WriteCommit
      <3> QED
        BY <2>1, <3>2 DEF WriteCommit, Committed, Message, IsTail
    <2>4. WriteRecorded(r)'
      BY <2>1, <2>2, <2>3 DEF WriteRecorded, HoldersRecorded, IsTail, HeadNode, TailNode
    <2> QED
      BY <1>3, <1>7, <2>4 DEF WriteForward, WriteCommit, WriteAck
  <1>8. UNCHANGED write => \A q \in Req : WriteRecorded(q)'
    BY <1>2
  <1> QED
    BY <1>4, <1>5, <1>6, <1>7, <1>8
    DEF Next, WriteStep, Handling, Send, PropagateStep, PropagateRecord, PropagateForward,
        PropagateCommit, PropagateAck, CallFails, HandleRead, Terminating, vars

-----------------------------------------------------------------------------
(* The other conjuncts *)

(* A step that records or commits does so at the head, for the version of  *)
(* the request, or at a node whose predecessor has recorded the version.   *)
LEMMA StoreSteps ==
  ASSUME TypeOK, HoldersRecorded, [Next]_vars
  PROVE  \/ UNCHANGED store
         \/ \E r \in Req, n \in Node : WriteAssign(r, n)
         \/ \E n \in Node, r \in Req :
               /\ write[r].version # 0
               /\ Raised(n, KeyOf[r], r, write[r].version)
               /\ \/ n = HeadNode
                  \/ \E p \in Node : /\ n = p + 1
                                     /\ store[p][KeyOf[r]].seen >= write[r].version
  <1>1. ASSUME NEW r \in Req, WriteRecord(r) \/ WriteCommit(r)
        PROVE  /\ HeadNode \in Node /\ write[r].version # 0
               /\ Raised(HeadNode, KeyOf[r], r, write[r].version)
    BY <1>1, StepsRaise, Positions
    DEF WriteRecord, WriteCommit, HoldersRecorded, WriteRecorded
  <1>2. ASSUME NEW c \in rpc, PropagateRecord(c) \/ PropagateCommit(c)
        PROVE  /\ c.to \in Node /\ c.msg.req \in Req /\ c.from \in Node
               /\ c.to = c.from + 1
               /\ write[c.msg.req].version # 0
               /\ Raised(c.to, KeyOf[c.msg.req], c.msg.req, write[c.msg.req].version)
               /\ store[c.from][KeyOf[c.msg.req]].seen >= write[c.msg.req].version
    <2>1. CallRecorded(c)
      BY DEF HoldersRecorded
    <2>2. c.msg.version = write[c.msg.req].version
      BY <2>1 DEF CallRecorded, Genuine
    <2>3. c.to \in Node /\ c.from \in Node /\ c.msg.req \in Req
      BY CallType
    <2>4. Raised(c.to, KeyOf[c.msg.req], c.msg.req, c.msg.version)
      BY <1>2, StepsRaise
    <2> QED
      BY <2>1, <2>2, <2>3, <2>4 DEF CallRecorded, Genuine, Recorded, Successor
  <1> QED
    BY <1>1, <1>2
    DEF Next, WriteRejected, WriteStep, Handling, WriteForward, WriteAck, Send,
        PropagateStep, PropagateForward, PropagateAck, CallFails, HandleRead,
        Terminating, vars

LEMMA OrderKept ==
  ASSUME TypeOK, TypeOK', HoldersRecorded, PropagationOrder, [Next]_vars
  PROVE  PropagationOrder'
  <1>1. \A n \in Node, k \in Key :
           store[n][k].seen \in Nat /\ store'[n][k].seen \in Nat
    <2>1. \A n \in Node, k \in Key :
             store[n][k] \in KeyState /\ store'[n][k] \in KeyState
      BY DEF TypeOK
    <2> QED
      BY <2>1, KeyStateFields
  <1>2. CASE UNCHANGED store
    BY <1>2 DEF PropagationOrder
  <1>3. ASSUME NEW r \in Req, NEW n \in Node, WriteAssign(r, n) PROVE PropagationOrder'
    BY <1>3, AssignRaises DEF PropagationOrder
  <1>4. ASSUME NEW n \in Node, NEW r \in Req,
               Raised(n, KeyOf[r], r, write[r].version),
               \/ n = HeadNode
               \/ \E p \in Node : /\ n = p + 1
                                  /\ store[p][KeyOf[r]].seen >= write[r].version
        PROVE  PropagationOrder'
    <2> DEFINE v == write[r].version
    <2>0. v \in Nat /\ Node \subseteq Nat
      BY Positions DEF TypeOK
    <2> SUFFICES ASSUME NEW k \in Key, NEW i \in Node, NEW j \in Node, i < j
                 PROVE  store'[i][k].seen >= store'[j][k].seen
      BY DEF PropagationOrder
    <2>1. /\ store[i][k].seen >= store[j][k].seen
          /\ store'[i][k].seen >= store[i][k].seen
      BY <1>4 DEF PropagationOrder, Raised, StoreGrows, AtOrAbove
    <2>2. CASE j # n \/ k # KeyOf[r]
      <3>1. store'[j][k] = store[j][k]
        BY <1>4, <2>2 DEF Raised
      <3> QED
        BY <1>1, <2>1, <3>1
    <2>3. CASE j = n /\ k = KeyOf[r]
      <3>1. store'[j][k].seen \in {store[j][k].seen, v}
        BY <1>4, <2>3 DEF Raised
      <3>2. PICK p \in Node : n = p + 1 /\ store[p][k].seen >= v
        BY <1>4, <2>0, <2>3 DEF HeadNode
      <3>3. store[i][k].seen >= store[p][k].seen
        BY <1>1, <2>0, <2>3, <3>2 DEF PropagationOrder
      <3>4. /\ store[i][k].seen \in Nat /\ store'[i][k].seen \in Nat
            /\ store[j][k].seen \in Nat /\ store[p][k].seen \in Nat
        BY <1>1, <3>2
      <3> HIDE DEF v
      <3>5. CASE store'[j][k].seen = v
        BY <2>0, <2>1, <3>2, <3>3, <3>4, <3>5
      <3>6. CASE store'[j][k].seen = store[j][k].seen
        BY <2>1, <3>4, <3>6
      <3> QED
        BY <3>1, <3>5, <3>6
    <2> QED
      BY <2>2, <2>3
  <1> QED
    BY <1>2, <1>3, <1>4, StoreSteps

LEMMA CommittedIsSeenKept ==
  ASSUME TypeOK, TypeOK', HoldersRecorded, CommittedIsSeen, [Next]_vars
  PROVE  CommittedIsSeen'
  <1>1. \A n \in Node, k \in Key :
           /\ store[n][k].seen \in Nat /\ store'[n][k].seen \in Nat
           /\ store[n][k].committed \in Nat /\ store'[n][k].committed \in Nat
    <2>1. \A n \in Node, k \in Key :
             store[n][k] \in KeyState /\ store'[n][k] \in KeyState
      BY DEF TypeOK
    <2> QED
      BY <2>1, KeyStateFields
  <1>2. CASE UNCHANGED store
    BY <1>2 DEF CommittedIsSeen
  <1>3. ASSUME NEW r \in Req, NEW n \in Node, WriteAssign(r, n) PROVE CommittedIsSeen'
    BY <1>3, AssignRaises DEF CommittedIsSeen
  <1>4. ASSUME NEW n \in Node, NEW r \in Req, Raised(n, KeyOf[r], r, write[r].version)
        PROVE  CommittedIsSeen'
    <2> SUFFICES ASSUME NEW m \in Node, NEW k \in Key
                 PROVE  store'[m][k].committed <= store'[m][k].seen
      BY DEF CommittedIsSeen
    <2>1. /\ store[m][k].committed <= store[m][k].seen
          /\ store'[m][k].seen >= store[m][k].seen
          /\ write[r].version \in Nat
      BY <1>4 DEF CommittedIsSeen, Raised, StoreGrows, AtOrAbove, TypeOK
    <2>2. CASE m # n \/ k # KeyOf[r]
      BY <1>4, <2>1, <2>2 DEF Raised
    <2>3. CASE m = n /\ k = KeyOf[r]
      <3>1. /\ store'[m][k].committed \in {store[m][k].committed, write[r].version}
            /\ store'[m][k].seen >= write[r].version
        BY <1>4, <2>3 DEF Raised
      <3> QED
        BY <1>1, <2>1, <3>1
    <2> QED
      BY <2>2, <2>3
  <1> QED
    BY <1>2, <1>3, <1>4, StoreSteps

(* The tail acknowledges only what it has committed. *)
LEMMA AckedKept ==
  ASSUME TypeOK, TypeOK', HoldersRecorded, AckedCommitted, [Next]_vars
  PROVE  AckedCommitted'
  <1>1. StoreGrows /\ VersionsStay
    BY StepGrows
  <1>2. \A a \in acked : IsMessage(a)
    BY DEF TypeOK, IsMessage
  <1>3. \A a \in acked : Genuine(a)' /\ Committed(a)'
    BY <1>1, <1>2, RecordedStays DEF AckedCommitted
  <1>4. UNCHANGED acked => AckedCommitted'
    BY <1>3 DEF AckedCommitted
  <1>5. ASSUME NEW m, IsMessage(m), m \in PropagateRequest, SendClientAck(m),
               Genuine(m), Committed(m)
        PROVE  AckedCommitted'
    <2>1. acked' \subseteq acked \cup {AckRequest(m)}
      BY <1>5, SendClientAckType
    <2>2. \A a : a = AckRequest(m) =>
             IsMessage(a) /\ Genuine(a) /\ Committed(a)
      BY <1>5 DEF AckRequest, IsMessage, Genuine, Committed
    <2>3. \A a : a = AckRequest(m) => Genuine(a)' /\ Committed(a)'
      BY <1>1, <2>2, RecordedStays
    <2> QED
      BY <1>3, <2>1, <2>3 DEF AckedCommitted
  <1>6. ASSUME NEW r \in Req, WriteAck(r) PROVE AckedCommitted'
    <2>1. /\ IsMessage(Message(r)) /\ Message(r) \in PropagateRequest
          /\ SendClientAck(Message(r)) /\ Committed(Message(r)) /\ Genuine(Message(r))
      BY <1>6, Messages, MessageType
      DEF WriteAck, HoldersRecorded, WriteRecorded, Genuine, Message
    <2> QED
      BY <1>5, <2>1
  <1>7. ASSUME NEW c \in rpc, PropagateAck(c) PROVE AckedCommitted'
    <2>1. /\ IsMessage(c.msg) /\ c.msg \in PropagateRequest
          /\ SendClientAck(c.msg) /\ Committed(c.msg) /\ Genuine(c.msg)
      BY <1>7, Messages, CallType DEF PropagateAck, HoldersRecorded, CallRecorded
    <2> QED
      BY <1>5, <2>1
  <1> QED
    BY <1>4, <1>6, <1>7
    DEF Next, WriteRejected, WriteAssign, WriteStep, Handling, WriteRecord, WriteForward,
        WriteCommit, Send, PropagateStep, PropagateRecord, PropagateForward,
        PropagateCommit, CallFails, HandleRead, Terminating, vars

(* Only WriteAssign gives out versions. *)
LEMMA VersionsChange ==
  ASSUME TypeOK, [Next]_vars
  PROVE  \/ \A r \in Req : write'[r].version = write[r].version
         \/ \E r \in Req, n \in Node : WriteAssign(r, n)
  <1>1. \A r \in Req : \A pc : WriteAt(r, pc) =>
           \A q \in Req : write'[q].version = write[q].version
    BY DEF WriteAt, TypeOK
  <1> QED
    BY <1>1
    DEF Next, WriteRejected, WriteStep, Handling, WriteRecord, WriteForward,
        WriteCommit, WriteAck, Send, PropagateStep, PropagateRecord, PropagateForward,
        PropagateCommit, PropagateAck, CallFails, HandleRead, Terminating, vars

LEMMA BelowNextKept ==
  ASSUME TypeOK, TypeOK', HoldersRecorded, VersionsBelowNext, [Next]_vars
  PROVE  VersionsBelowNext'
  <1>1. \A r \in Req : /\ KeyOf[r] \in Key /\ write[r].version \in Nat
                       /\ store[HeadNode][KeyOf[r]].next \in Nat
                       /\ store'[HeadNode][KeyOf[r]].next \in Nat
    <2>1. \A r \in Req : /\ store[HeadNode][KeyOf[r]] \in KeyState
                         /\ store'[HeadNode][KeyOf[r]] \in KeyState
      BY KeyOfAssumption, Positions DEF TypeOK
    <2> QED
      BY <2>1, KeyOfAssumption, KeyStateFields DEF TypeOK
  <1>2. \A r \in Req :
           store'[HeadNode][KeyOf[r]].next >= store[HeadNode][KeyOf[r]].next
    BY <1>1, StepGrows, Positions DEF StoreGrows, AtOrAbove
  <1>3. CASE \A r \in Req : write'[r].version = write[r].version
    BY <1>1, <1>2, <1>3 DEF VersionsBelowNext
  <1>4. ASSUME NEW r \in Req, NEW n \in Node, WriteAssign(r, n) PROVE VersionsBelowNext'
    <2>0. /\ n = HeadNode
          /\ write' = [write EXCEPT ![r] =
                         [pc |-> "assigned", version |-> store[n][KeyOf[r]].next + 1]]
          /\ store'[n][KeyOf[r]].next = store[n][KeyOf[r]].next + 1
      BY <1>4, AssignRaises
    <2>1. /\ \A q \in Req : q # r => write'[q].version = write[q].version
          /\ write'[r].version = store'[HeadNode][KeyOf[r]].next
      BY <2>0 DEF TypeOK
    <2> QED
      BY <1>1, <1>2, <2>1 DEF VersionsBelowNext
  <1> QED
    BY <1>3, <1>4, VersionsChange

(* The head's counter moves to a version just assigned, or to one received *)
(* in a message, which is genuine and so not above the counter.            *)
LEMMA NextAssignedKept ==
  ASSUME TypeOK, TypeOK', HoldersRecorded, VersionsBelowNext, NextIsAssigned,
         [Next]_vars
  PROVE  NextIsAssigned'
  <1> SUFFICES ASSUME NEW k \in Key, store'[HeadNode][k].next # 0
               PROVE  \E r \in Req : /\ KeyOf[r] = k
                                     /\ write'[r].version = store'[HeadNode][k].next
    BY DEF NextIsAssigned
  <1>1. VersionsStay
    BY StepGrows
  <1>2. CASE store'[HeadNode][k].next = store[HeadNode][k].next
    BY <1>1, <1>2 DEF NextIsAssigned, VersionsStay
  <1>3. ASSUME NEW r \in Req, NEW n \in Node, WriteAssign(r, n), k = KeyOf[r]
        PROVE  write'[r].version = store'[HeadNode][k].next
    BY <1>3, AssignRaises DEF TypeOK
  <1>4. ASSUME NEW r \in Req, NEW n \in Node, WriteAssign(r, n), k # KeyOf[r]
        PROVE  store'[HeadNode][k].next = store[HeadNode][k].next
    <2>1. n = HeadNode /\ UpdateKey(n, KeyOf[r], AssignNextVersion(store[n][KeyOf[r]]))
      BY <1>4 DEF WriteAssign, IsHead
    <2> QED
      BY <1>4, <2>1, Positions DEF UpdateKey, TypeOK
  <1>5. ASSUME NEW n \in Node, NEW r \in Req, write[r].version # 0,
               Raised(n, KeyOf[r], r, write[r].version),
               store'[HeadNode][k].next # store[HeadNode][k].next
        PROVE  KeyOf[r] = k /\ write'[r].version = store'[HeadNode][k].next
    BY <1>1, <1>5, Positions DEF Raised, VersionsStay
  <1> QED
    BY <1>2, <1>3, <1>4, <1>5, StoreSteps

LEMMA OneWriteKept ==
  ASSUME TypeOK, TypeOK', HoldersRecorded, VersionsBelowNext, VersionNamesOneWrite,
         [Next]_vars
  PROVE  VersionNamesOneWrite'
  <1> DEFINE Unique(f) == \A q, r \in Req :
                 KeyOf[q] = KeyOf[r] /\ f[q].version = f[r].version
                 /\ f[q].version # 0 => q = r
             HoldsNext(k, x, v) ==
                 v # 0 => x \in Req /\ KeyOf[x] = k /\ write'[x].version = v
             Holding(s) == \A n \in Node, k \in Key :
                 /\ HoldsNext(k, s[n][k].seenValue, s[n][k].seen)
                 /\ HoldsNext(k, s[n][k].committedValue, s[n][k].committed)
  <1>1. VersionsStay
    BY StepGrows
  <1>2. \A k, x, v : HoldsWrite(k, x, v) => HoldsNext(k, x, v)
    BY <1>1 DEF HoldsWrite, VersionsStay
  <1>3. Unique(write')
    <2>1. CASE \A r \in Req : write'[r].version = write[r].version
      BY <2>1 DEF VersionNamesOneWrite
    <2>2. ASSUME NEW r \in Req, NEW n \in Node, WriteAssign(r, n) PROVE Unique(write')
      <3>1. store[HeadNode][KeyOf[r]].next \in Nat
        BY KeyStateFields, KeyOfAssumption, Positions DEF TypeOK
      <3>2. /\ \A q \in Req : q # r => write'[q].version = write[q].version
            /\ write'[r].version = store[HeadNode][KeyOf[r]].next + 1
        BY <2>2, AssignRaises DEF TypeOK
      <3>3. \A q \in Req : /\ write[q].version \in Nat
                           /\ KeyOf[q] = KeyOf[r] =>
                                write[q].version <= store[HeadNode][KeyOf[r]].next
        BY DEF VersionsBelowNext, TypeOK
      <3>4. \A q \in Req : KeyOf[q] = KeyOf[r] /\ q # r
                              => write'[q].version # write'[r].version
        BY <3>1, <3>2, <3>3
      <3> QED
        BY <3>2, <3>4 DEF VersionNamesOneWrite
    <2> QED
      BY <2>1, <2>2, VersionsChange
  <1>4. Holding(store')
    <2>1. CASE UNCHANGED store
      BY <1>2, <2>1 DEF VersionNamesOneWrite
    <2>2. ASSUME NEW r \in Req, NEW n \in Node, WriteAssign(r, n) PROVE Holding(store')
      BY <1>2, <2>2, AssignRaises DEF VersionNamesOneWrite
    <2>3. ASSUME NEW n \in Node, NEW r \in Req, write[r].version # 0,
                 Raised(n, KeyOf[r], r, write[r].version)
          PROVE  Holding(store')
      <3>1. HoldsNext(KeyOf[r], r, write[r].version)
        BY <1>1, <2>3 DEF VersionsStay
      <3>2. ASSUME NEW m \in Node, NEW k \in Key
            PROVE  /\ HoldsNext(k, store'[m][k].seenValue, store'[m][k].seen)
                   /\ HoldsNext(k, store'[m][k].committedValue, store'[m][k].committed)
        <4>1. /\ HoldsWrite(k, store[m][k].seenValue, store[m][k].seen)
              /\ HoldsWrite(k, store[m][k].committedValue, store[m][k].committed)
          BY DEF VersionNamesOneWrite
        <4>2. CASE m # n \/ k # KeyOf[r]
          BY <1>2, <2>3, <4>1, <4>2 DEF Raised
        <4>3. CASE m = n /\ k = KeyOf[r]
          BY <1>2, <2>3, <3>1, <4>1, <4>3 DEF Raised
        <4> QED
          BY <4>2, <4>3
      <3> QED
        BY <3>2
    <2> QED
      BY <2>1, <2>2, <2>3, StoreSteps
  <1> QED
    BY <1>3, <1>4 DEF VersionNamesOneWrite, HoldsWrite

LEMMA UnseenKept ==
  ASSUME TypeOK, TypeOK', HoldersRecorded, UnseenIsEmpty, [Next]_vars
  PROVE  UnseenIsEmpty'
  <1>1. CASE UNCHANGED store
    BY <1>1 DEF UnseenIsEmpty
  <1>2. ASSUME NEW r \in Req, NEW n \in Node, WriteAssign(r, n) PROVE UnseenIsEmpty'
    BY <1>2, AssignRaises DEF UnseenIsEmpty
  <1>3. ASSUME NEW n \in Node, NEW r \in Req, write[r].version # 0,
               Raised(n, KeyOf[r], r, write[r].version)
        PROVE  UnseenIsEmpty'
    <2> SUFFICES ASSUME NEW m \in Node, NEW k \in Key, store'[m][k].seen = 0
                 PROVE  store'[m][k].seenValue = NoReq
      BY DEF UnseenIsEmpty
    <2>1. CASE m # n \/ k # KeyOf[r]
      BY <1>3, <2>1 DEF Raised, UnseenIsEmpty
    <2>2. CASE m = n /\ k = KeyOf[r]
      <3>1. write[r].version \in Nat /\ store'[m][k].seen >= write[r].version
        BY <1>3, <2>2 DEF Raised, TypeOK
      <3> QED
        BY <1>3, <3>1
    <2> QED
      BY <2>1, <2>2
  <1> QED
    BY <1>1, <1>2, <1>3, StoreSteps

-----------------------------------------------------------------------------
(* Delivered: every step hands on the message it takes *)

(* Once a call is lost it is lost. *)
LEMMA LostStays ==
  ASSUME TypeOK, [Next]_vars, ~lost'
  PROVE  ~lost
  <1>1. \A m : SendClientAck(m) => lost' = lost \/ lost' = TRUE
    BY DEF SendClientAck
  <1>2. \A c : RpcLost(c) \/ RpcAbandoned(c) => lost' = lost \/ lost' = TRUE
    BY DEF RpcLost, RpcAbandoned
  <1>3. lost' = lost \/ lost' = TRUE
    BY <1>1, <1>2
    DEF Next, WriteRejected, WriteAssign, WriteStep, WriteRecord, WriteForward,
        WriteCommit, WriteAck, Send, PropagateStep, PropagateRecord, PropagateForward,
        PropagateCommit, PropagateAck, CallFails, HandleRead, Terminating, vars
  <1> QED
    BY <1>3

(* A task before n stays or becomes a call to a node not after n. *)
LEMMA TaskHandedOn ==
  ASSUME TypeOK, HoldersRecorded, [Next]_vars, NEW m, NEW n \in 0 .. N,
         TaskBefore(m, n)
  PROVE  TaskBefore(m, n)' \/ CallBefore(m, n)'
  <1>0. PICK p \in Node : p < n /\ \E t \in Tasks(p) : t.msg = m
    BY DEF TaskBefore
  <1>1. PICK t \in Tasks(p) : p < n /\ t.msg = m
    BY <1>0
  <1>2. DispatcherTypeOK /\ Node \subseteq Nat
    BY Positions DEF TypeOK
  <1>3. t.successor = p + 1
    BY DEF HoldersRecorded, TaskRecorded, Successor
  <1>4. t \in Tasks(p)' => TaskBefore(m, n)'
    BY <1>1 DEF TaskBefore
  <1>5. UNCHANGED queue => t \in Tasks(p)'
    BY DEF Tasks
  <1>6. ASSUME NEW r \in Req, WriteForward(r) PROVE t \in Tasks(p)'
    BY <1>2, <1>6, Positions, MessageType, EnqueueKeeps DEF WriteForward
  <1>7. ASSUME NEW c \in rpc, PropagateForward(c) PROVE t \in Tasks(p)'
    BY <1>2, <1>7, Positions, CallType, EnqueueKeeps DEF PropagateForward
  <1>8. ASSUME NEW q \in Node, Send(q) PROVE t \in Tasks(p)' \/ CallBefore(m, n)'
    <2> DEFINE d == [from |-> p, to |-> t.successor, msg |-> t.msg,
                     pc |-> "sent", held |-> TRUE]
    <2>1. t \in Tasks(p)' \/ d \in rpc'
      BY <1>2, <1>8, WorkerSendKeeps DEF Send
    <2>2. d.msg = m /\ d.pc = "sent" /\ d.to <= n
      BY <1>1, <1>2, <1>3
    <2> QED
      BY <2>1, <2>2 DEF CallBefore
  <1>9. ASSUME NEW c \in rpc, CallFails(c) PROVE UNCHANGED queue
    BY <1>9 DEF CallFails, RpcLost, RpcAbandoned
  <1> QED
    BY <1>4, <1>5, <1>6, <1>7, <1>8, <1>9
    DEF Next, WriteRejected, WriteAssign, WriteStep, Handling, WriteRecord, WriteCommit,
        WriteAck, PropagateStep, PropagateRecord, PropagateCommit, PropagateAck,
        HandleRead, Terminating, vars

(* A call before n records its message there, goes on, hands it to the     *)
(* dispatcher of its node or, at the tail, commits it.                     *)
LEMMA CallHandedOn ==
  ASSUME TypeOK, HoldersRecorded, [Next]_vars, ~lost', NEW m, NEW n \in 0 .. N,
         CallBefore(m, n)
  PROVE  TaskBefore(m, n)' \/ CallBefore(m, n)' \/ Reached(m, n)'
  <1>1. PICK c \in rpc : /\ c.msg = m
                         /\ \/ c.pc = "sent" /\ c.to <= n
                            \/ c.pc = "recorded" /\ c.to < n
    BY DEF CallBefore
  <1>2. DispatcherTypeOK
    BY DEF TypeOK
  <1>3. /\ c.to \in Node /\ c.to \in 0 .. N-1 /\ N \in Nat
        /\ c.msg.req \in Req /\ c.msg.version \in Nat
    BY CallType, ChainAssumption
  <1>4. \A e \in rpc' : e.to = c.to /\ e.msg = c.msg /\ e.pc = c.pc => CallBefore(m, n)'
    BY <1>1 DEF CallBefore
  <1>5. c \in rpc' => CallBefore(m, n)'
    BY <1>4
  <1>6. ASSUME NEW q \in Node, Send(q) PROVE c \in rpc'
    BY <1>2, <1>6, WorkerSendKeeps DEF Send
  <1>7. ASSUME NEW d \in rpc, PropagateRecord(d)
        PROVE  CallBefore(m, n)' \/ Reached(m, n)'
    <2>1. /\ d # c => c \in rpc'
          /\ \E e \in rpc' : e.to = d.to /\ e.msg = d.msg /\ e.pc = "recorded"
      BY <1>2, <1>7, AdvanceKeeps DEF PropagateRecord
    <2>2. CASE d # c
      BY <1>5, <2>1, <2>2
    <2>3. CASE d = c /\ c.to # n
      BY <1>1, <1>3, <2>1, <2>3 DEF CallBefore
    <2>4. CASE d = c /\ c.to = n
      <3>1. Recorded(n, m)'
        BY <1>1, <1>7, <2>4, StepsRaise DEF Raised, Recorded
      <3> QED
        BY <1>3, <2>4, <3>1 DEF Reached
    <2> QED
      BY <2>2, <2>3, <2>4
  <1>8. ASSUME NEW d \in rpc, PropagateForward(d)
        PROVE  TaskBefore(m, n)' \/ CallBefore(m, n)'
    <2>1. CASE d # c
      BY <1>5, <1>8, <2>1 DEF PropagateForward, Return
    <2>2. CASE d = c
      <3>1. [successor |-> Successor(c.to), msg |-> c.msg] \in Tasks(c.to)'
        BY <1>2, <1>8, <2>2, Positions, CallType, EnqueueKeeps DEF PropagateForward
      <3>2. c.to < n
        BY <1>1, <1>8, <2>2 DEF PropagateForward
      <3> QED
        BY <1>1, <1>3, <3>1, <3>2 DEF TaskBefore
    <2> QED
      BY <2>1, <2>2
  <1>9. ASSUME NEW d \in rpc, PropagateCommit(d)
        PROVE  CallBefore(m, n)' \/ Reached(m, n)'
    <2>1. d # c => c \in rpc'
      BY <1>2, <1>9, AdvanceKeeps DEF PropagateCommit
    <2>2. CASE d # c
      BY <1>5, <2>1, <2>2
    <2>3. CASE d = c
      <3>1. c.to = TailNode /\ c.to < n
        BY <1>1, <1>9, <2>3 DEF PropagateCommit, IsTail
      <3>2. n = N
        BY <1>3, <3>1 DEF TailNode
      <3>3. StoreOK
        BY DEF TypeOK, StoreOK
      <3>4. store'[c.to][KeyOf[c.msg.req]].committed >= c.msg.version
        BY <1>3, <1>9, <2>3, <3>3, CommitRaises DEF PropagateCommit
      <3> QED
        BY <1>1, <3>1, <3>2, <3>4 DEF Reached, Committed
    <2> QED
      BY <2>2, <2>3
  <1>10. ASSUME NEW d \in rpc, PropagateAck(d) PROVE c \in rpc'
    BY <1>1, <1>10 DEF PropagateAck, Return
  <1>11. ASSUME NEW d \in rpc, CallFails(d) PROVE CallBefore(m, n)'
    <2>1. RpcAbandoned(d)
      BY <1>11 DEF CallFails, RpcLost
    <2> QED
      BY <1>2, <1>4, <2>1, AbandonedKeeps
  <1>12. UNCHANGED rpc => c \in rpc'
    OBVIOUS
  <1> QED
    BY <1>5, <1>6, <1>7, <1>8, <1>9, <1>10, <1>11, <1>12
    DEF Next, WriteRejected, WriteAssign, WriteStep, Handling, WriteRecord, WriteForward,
        WriteCommit, WriteAck, PropagateStep, HandleRead, Terminating, vars

(* handle_write keeps the message until it enqueues or commits it. *)
LEMMA WriteHandedOn ==
  ASSUME TypeOK, HoldersRecorded, [Next]_vars, NEW r \in Req, NEW m, NEW n \in 0 .. N,
         m = Message(r), Recorded(HeadNode, m)' \/ n # 0,
         write[r].pc \in {"assigned", "recorded"}
  PROVE  \/ write'[r].pc \in {"assigned", "recorded"}
         \/ TaskBefore(m, n)' \/ Reached(m, n)'
  <1>1. CASE write'[r].pc = write[r].pc
    BY <1>1
  <1>2. ASSUME NEW q \in Req, NEW pc, WriteAt(q, pc), q # r
        PROVE  write'[r].pc = write[r].pc
    BY <1>2 DEF WriteAt, TypeOK
  <1>3. CASE WriteRecord(r)
    BY <1>3 DEF WriteRecord, WriteAt, TypeOK
  <1>4. CASE WriteForward(r)
    <2>1. [successor |-> Successor(HeadNode), msg |-> m] \in Tasks(HeadNode)'
      BY <1>4, Positions, MessageType, EnqueueKeeps DEF WriteForward, TypeOK
    <2>2. CASE n # 0
      BY <2>1, <2>2, Positions, ChainAssumption DEF TaskBefore, HeadNode
    <2>3. CASE n = 0
      BY <2>3, ChainAssumption DEF Reached, HeadNode
    <2> QED
      BY <2>2, <2>3
  <1>5. CASE WriteCommit(r)
    <2>1. N = 1 /\ HeadNode = TailNode
      BY <1>5, ChainAssumption DEF WriteCommit, IsTail, HeadNode, TailNode
    <2>2. StoreOK /\ write[r].version \in Nat
      BY DEF TypeOK, StoreOK
    <2>3. store'[HeadNode][KeyOf[r]].committed >= write[r].version
      BY <1>5, <2>2, Positions, CommitRaises DEF WriteCommit
    <2>4. Committed(m)'
      BY <2>1, <2>3 DEF Committed, Message
    <2>5. n = 1 \/ n = 0
      BY <2>1
    <2> QED
      BY <2>1, <2>4, <2>5 DEF Reached, HeadNode
  <1>6. ~WriteAck(r)
    BY DEF WriteAck
  <1>7. ASSUME NEW q \in Req, NEW p \in Node, WriteAssign(q, p)
        PROVE  write'[r].pc = write[r].pc
    <2>1. q # r
      BY <1>7 DEF WriteAssign
    <2> QED
      BY <1>7, <2>1, AssignRaises DEF TypeOK
  <1>8. ASSUME NEW q \in Req, NEW p \in Node, WriteRejected(q, p)
        PROVE  write'[r].pc = write[r].pc
    BY <1>2, <1>8 DEF WriteRejected
  <1>9. ASSUME NEW q \in Req, WriteStep(q), q # r
        PROVE  write'[r].pc = write[r].pc
    BY <1>2, <1>9 DEF WriteStep, WriteRecord, WriteForward, WriteCommit, WriteAck
  <1>10. WriteStep(r) => WriteRecord(r) \/ WriteForward(r) \/ WriteCommit(r)
    BY <1>6 DEF WriteStep
  <1> QED
    BY <1>1, <1>3, <1>4, <1>5, <1>7, <1>8, <1>9, <1>10
    DEF Next, Handling, Send, PropagateStep, PropagateRecord, PropagateForward,
        PropagateCommit, PropagateAck, CallFails, HandleRead, Terminating, vars

LEMMA ReachedStays ==
  ASSUME TypeOK, TypeOK', HoldersRecorded, [Next]_vars, NEW m, IsMessage(m),
         NEW n \in 0 .. N, Reached(m, n)
  PROVE  Reached(m, n)'
  <1>1. StoreGrows /\ VersionsStay
    BY StepGrows
  <1>2. n # N => n \in Node
    BY ChainAssumption
  <1> QED
    BY <1>1, <1>2, RecordedStays DEF Reached

LEMMA DeliveredKept ==
  ASSUME TypeOK, TypeOK', HoldersRecorded, HoldersRecorded', Delivered, [Next]_vars
  PROVE  Delivered'
  <1> SUFFICES ASSUME ~lost', NEW r \in Req, NEW n \in 0 .. N, write'[r].version # 0
               PROVE  Reached(Message(r), n)' \/ OnItsWay(r, n)'
    BY DEF Delivered
  <1>1. CASE write[r].version = 0
    <2>1. PICK q \in Req, p \in Node : WriteAssign(q, p)
      BY <1>1, VersionsChange
    <2>2. write'[q].pc = "assigned" /\ (q # r => write'[r] = write[r])
      BY <2>1, AssignRaises DEF TypeOK
    <2> QED
      BY <1>1, <2>2 DEF OnItsWay
  <1>2. CASE write[r].version # 0
    <2>1. PICK m : m = Message(r)
      OBVIOUS
    <2>2. VersionsStay
      BY StepGrows
    <2>3. m = Message(r)' /\ IsMessage(m)
      BY <1>2, <2>1, <2>2, Messages DEF VersionsStay, Message, HeadNode
    <2>4. Reached(m, n) \/ OnItsWay(r, n)
      BY <1>2, <2>1, LostStays DEF Delivered
    <2>5. CASE Reached(m, n)
      BY <2>3, <2>5, ReachedStays DEF Reached, Recorded, Committed
    <2>6. Recorded(HeadNode, m)' \/ write'[r].pc = "assigned"
      BY <1>2, <2>1, <2>2, <2>3
      DEF HoldersRecorded, WriteRecorded, VersionsStay, Recorded, TypeOK
    <2>7. CASE write[r].pc \in {"assigned", "recorded"}
      <3>1. CASE write'[r].pc = "assigned"
        BY <3>1 DEF OnItsWay
      <3>2. CASE Recorded(HeadNode, m)'
        BY <2>1, <2>3, <2>7, <3>2, WriteHandedOn
        DEF OnItsWay, Reached, Recorded, Committed, TaskBefore
      <3> QED
        BY <2>6, <3>1, <3>2
    <2>8. CASE TaskBefore(m, n)
      BY <2>3, <2>8, TaskHandedOn DEF OnItsWay, TaskBefore, CallBefore
    <2>9. CASE CallBefore(m, n)
      BY <2>3, <2>9, CallHandedOn
      DEF OnItsWay, TaskBefore, CallBefore, Reached, Recorded, Committed
    <2> QED
      BY <2>1, <2>4, <2>5, <2>7, <2>8, <2>9 DEF OnItsWay
  <1> QED
    BY <1>1, <1>2

-----------------------------------------------------------------------------
(* The inductive invariant and the theorems it gives *)

LEMMA InitIInv == Init => IInv
  <1> SUFFICES ASSUME Init PROVE IInv
    OBVIOUS
  <1>1. TypeOK
    BY InitTypeOK
  <1>2. \A n \in Node, k \in Key : store[n][k] = FreshKey
    BY DEF Init
  <1>3. HoldersRecorded
    BY DEF Init, DispatcherInit, HoldersRecorded, WriteRecorded, Tasks
  <1>4. PropagationOrder /\ CommittedIsSeen
    BY <1>2 DEF PropagationOrder, CommittedIsSeen, FreshKey
  <1>5. AckedCommitted
    BY DEF Init, AckedCommitted
  <1>6. VersionsBelowNext
    BY <1>2, KeyOfAssumption, Positions DEF Init, VersionsBelowNext, FreshKey
  <1>7. VersionNamesOneWrite
    BY <1>2 DEF Init, VersionNamesOneWrite, HoldsWrite, FreshKey
  <1>8. NextIsAssigned
    BY <1>2, Positions DEF NextIsAssigned, FreshKey
  <1>9. UnseenIsEmpty /\ Delivered
    BY <1>2 DEF Init, UnseenIsEmpty, Delivered, FreshKey
  <1> QED
    BY <1>1, <1>3, <1>4, <1>5, <1>6, <1>7, <1>8, <1>9 DEF IInv

LEMMA NextIInv == IInv /\ [Next]_vars => IInv'
  <1> SUFFICES ASSUME IInv, [Next]_vars PROVE IInv'
    OBVIOUS
  <1>1. TypeOK'
    BY NextTypeOK DEF IInv
  <1>2. HoldersRecorded'
    BY <1>1, TasksRecorded, CallsRecorded, WritesRecorded DEF IInv, HoldersRecorded
  <1> QED
    BY <1>1, <1>2, OrderKept, CommittedIsSeenKept, AckedKept, BelowNextKept,
       NextAssignedKept, OneWriteKept, UnseenKept, DeliveredKept
    DEF IInv

THEOREM Invariance == Spec => []IInv
  BY InitIInv, NextIInv, PTL DEF Spec

(* No node is ever ahead of one before it, although several workers send   *)
(* at once and calls overtake one another, and whatever calls are lost.    *)
THEOREM OrderTheorem == Spec => []PropagationOrder
  <1>1. IInv => PropagationOrder
    BY DEF IInv
  <1> QED
    BY <1>1, Invariance, PTL

(* A version of a key names one write on every replica, however the        *)
(* handle_write threads of the head interleave.                            *)
THEOREM OneWriteTheorem == Spec => []VersionNamesOneWrite
  <1>1. IInv => VersionNamesOneWrite
    BY DEF IInv
  <1> QED
    BY <1>1, Invariance, PTL

LEMMA AtLeastTransitive ==
  ASSUME NEW x \in Nat, NEW y \in Nat, NEW z \in Nat, x >= y, y >= z
  PROVE  x >= z
  OBVIOUS

(* A client that holds an acknowledgement knows its write, or a newer one  *)
(* of the same key, committed at the tail and recorded on every replica.   *)
THEOREM AckedTheorem == Spec => []AckedEverywhere
  <1>1. IInv => AckedEverywhere
    <2> SUFFICES ASSUME IInv, NEW a \in acked
                 PROVE  LET k == KeyOf[a.req]
                        IN  /\ a.version = write[a.req].version
                            /\ store[TailNode][k].committed >= a.version
                            /\ \A n \in Node : store[n][k].seen >= a.version
      BY DEF AckedEverywhere
    <2> DEFINE k == KeyOf[a.req]
    <2>1. k \in Key /\ a.version \in Nat
      BY KeyOfAssumption DEF IInv, TypeOK
    <2>2. \A n \in Node : /\ store[n][k].seen \in Nat /\ store[n][k].committed \in Nat
                          /\ store[n][k].committed <= store[n][k].seen
      <3>1. \A n \in Node : store[n][k] \in KeyState
        BY <2>1 DEF IInv, TypeOK
      <3> QED
        BY <2>1, <3>1, KeyStateFields DEF IInv, CommittedIsSeen
    <2>3. /\ a.version = write[a.req].version
          /\ store[TailNode][k].committed >= a.version
      BY DEF IInv, AckedCommitted, Genuine, Committed
    <2>4. \A n \in Node : n # TailNode => store[n][k].seen >= store[TailNode][k].seen
      BY <2>1, Positions, ChainAssumption DEF IInv, PropagationOrder, TailNode
    <2>5. ASSUME NEW n \in Node PROVE store[n][k].seen >= a.version
      <3>1. store[TailNode][k].seen >= a.version
        <4>1. /\ store[TailNode][k].seen \in Nat /\ store[TailNode][k].committed \in Nat
              /\ store[TailNode][k].committed <= store[TailNode][k].seen
          BY <2>2, Positions
        <4> QED
          BY <2>1, <2>3, <4>1, AtLeastTransitive
      <3>2. CASE n = TailNode
        BY <3>1, <3>2
      <3>3. CASE n # TailNode
        <4>1. store[n][k].seen \in Nat /\ store[TailNode][k].seen \in Nat
          BY <2>2, Positions
        <4>2. store[n][k].seen >= store[TailNode][k].seen
          BY <2>4, <3>3
        <4> QED
          BY <2>1, <3>1, <4>1, <4>2, AtLeastTransitive
      <3> QED
        BY <3>2, <3>3
    <2> QED
      BY <2>3, <2>5
  <1> QED
    BY <1>1, Invariance, PTL

(* A version of a key that a replica has seen is one the head gave out. *)
LEMMA SeenBelowNext ==
  ASSUME IInv, NEW n \in Node, NEW k \in Key
  PROVE  /\ store[n][k].seen \in Nat /\ store[n][k].committed \in Nat
         /\ store[HeadNode][k].next \in Nat
         /\ store[n][k].seen <= store[HeadNode][k].next
  <1>1. store[n][k] \in KeyState /\ store[HeadNode][k] \in KeyState
    BY Positions DEF IInv, TypeOK
  <1>2. /\ store[n][k].seen \in Nat /\ store[n][k].committed \in Nat
        /\ store[HeadNode][k].next \in Nat
    BY <1>1, KeyStateFields
  <1>3. HoldsWrite(k, store[n][k].seenValue, store[n][k].seen)
    BY DEF IInv, VersionNamesOneWrite
  <1> QED
    BY <1>2, <1>3 DEF HoldsWrite, IInv, VersionsBelowNext

(* Unless a call was lost, a chain with nothing left to do has converged:  *)
(* every replica holds the head's last version of every key with the       *)
(* head's value and the tail has committed it, however the calls of the    *)
(* workers overtook one another.                                           *)
THEOREM QuietTheorem == Spec => []QuietConverged
  <1>1. ASSUME IInv, Quiet, ~lost, NEW r \in Req, NEW n \in 0 .. N,
               write[r].version # 0
        PROVE  Reached(Message(r), n)
    <2>1. \A p \in Node : Tasks(p) = {}
      BY <1>1 DEF Quiet, Tasks
    <2>2. ~OnItsWay(r, n)
      BY <1>1, <2>1 DEF Quiet, OnItsWay, TaskBefore, CallBefore
    <2> QED
      BY <1>1, <2>2 DEF IInv, Delivered
  <1>2. ASSUME IInv, Quiet, ~lost, NEW k \in Key, NEW n \in Node
        PROVE  /\ store[n][k].seen = store[HeadNode][k].next
               /\ store[n][k].seenValue = store[HeadNode][k].seenValue
               /\ store[TailNode][k].committed = store[HeadNode][k].next
    <2>1. HeadNode \in Node /\ TailNode \in Node /\ N \in 0 .. N /\ Node \subseteq 0 .. N
          /\ N \notin Node
      BY Positions, ChainAssumption
    <2>2. \A p \in Node : /\ store[p][k].seen \in Nat /\ store[p][k].committed \in Nat
                          /\ store[p][k].seen <= store[HeadNode][k].next
                          /\ store[p][k].committed <= store[p][k].seen
                          /\ store[HeadNode][k].next \in Nat
      BY <1>2, SeenBelowNext DEF IInv, CommittedIsSeen
    <2>3. CASE store[HeadNode][k].next = 0
      <3>1. /\ store[n][k].seen = 0 /\ store[HeadNode][k].seen = 0
            /\ store[TailNode][k].committed = 0
        BY <2>1, <2>2, <2>3
      <3>2. store[n][k].seenValue = NoReq /\ store[HeadNode][k].seenValue = NoReq
        BY <1>2, <2>1, <3>1 DEF IInv, UnseenIsEmpty
      <3> QED
        BY <2>3, <3>1, <3>2
    <2>4. CASE store[HeadNode][k].next # 0
      <3>1. PICK r \in Req : KeyOf[r] = k /\ write[r].version = store[HeadNode][k].next
        BY <1>2, <2>4 DEF IInv, NextIsAssigned
      <3>2. \A p \in Node : Recorded(p, Message(r))
        BY <1>1, <1>2, <2>1, <2>4, <3>1 DEF Reached
      <3>3. Committed(Message(r))
        BY <1>1, <1>2, <2>1, <2>4, <3>1 DEF Reached
      <3>4. \A p \in Node : store[p][k].seen = store[HeadNode][k].next
        BY <2>2, <3>1, <3>2 DEF Recorded, Message
      <3>5. store[TailNode][k].committed = store[HeadNode][k].next
        <4>1. store[TailNode][k].committed >= store[HeadNode][k].next
          BY <3>1, <3>3 DEF Committed, Message
        <4> QED
          BY <2>1, <2>2, <4>1
      <3>6. \A p \in Node : HoldsWrite(k, store[p][k].seenValue, store[p][k].seen)
        BY <1>2 DEF IInv, VersionNamesOneWrite
      <3>7. \A p \in Node : /\ store[p][k].seenValue \in Req
                            /\ KeyOf[store[p][k].seenValue] = k
                            /\ write[store[p][k].seenValue].version = store[HeadNode][k].next
        BY <2>4, <3>4, <3>6 DEF HoldsWrite
      <3>8. store[n][k].seenValue = store[HeadNode][k].seenValue
        BY <1>2, <2>1, <2>4, <3>7 DEF IInv, VersionNamesOneWrite
      <3> QED
        BY <3>4, <3>5, <3>8
    <2> QED
      BY <2>3, <2>4
  <1>3. IInv => QuietConverged
    BY <1>2 DEF QuietConverged
  <1> QED
    BY <1>3, Invariance, PTL

-----------------------------------------------------------------------------
(* CHAIN mode keeps its promise to the clients, whatever is lost: it       *)
(* implements the register of CommittedRegister, and the reads of the tail *)
(* are linearizable.  Both rest on IInv.                                   *)

(* What the clients can see of a step: versions given out, the committed   *)
(* values of the tail, acknowledgements.                                   *)
VersionsSame == \A r \in Req : write'[r].version = write[r].version

CommittedSameAt(k) ==
    /\ store'[TailNode][k].committed = store[TailNode][k].committed
    /\ store'[TailNode][k].committedValue = store[TailNode][k].committedValue
CommittedSame == \A k \in Key : CommittedSameAt(k)

Acknowledged(r) ==
    /\ write[r].version # 0
    /\ write[r].version <= store[TailNode][KeyOf[r]].committed
    /\ acked' = acked \cup {[req |-> r, version |-> write[r].version]}

LEMMA StoreType ==
  ASSUME TypeOK
  PROVE  /\ \A n \in Node, k \in Key : /\ store[n][k].next \in Nat
                                      /\ store[n][k].seen \in Nat
                                      /\ store[n][k].committed \in Nat
         /\ \A r \in Req : KeyOf[r] \in Key /\ write[r].version \in Nat
  <1>1. \A n \in Node, k \in Key : store[n][k] \in KeyState
    BY DEF TypeOK
  <1>2. \A r \in Req : KeyOf[r] \in Key /\ write[r].version \in Nat
    BY KeyOfAssumption DEF TypeOK
  <1> QED
    BY <1>1, <1>2, KeyStateFields

-----------------------------------------------------------------------------
(* An Ack call that arrives, sent for a genuine and committed message *)
LEMMA AckEffect ==
  ASSUME TypeOK, NEW m, IsMessage(m), Genuine(m), Committed(m), SendClientAck(m)
  PROVE  UNCHANGED acked \/ \E r \in Req : Acknowledged(r)
  <1>1. m.req \in Req /\ m.version = write[m.req].version /\ m.version # 0
    BY DEF IsMessage, Genuine
  <1>2. /\ m.version \in Nat /\ store[TailNode][KeyOf[m.req]].committed \in Nat
    BY <1>1, StoreType, Positions DEF IsMessage
  <1>3. m.version <= store[TailNode][KeyOf[m.req]].committed
    BY <1>2 DEF Committed
  <1>4. UNCHANGED acked \/ acked' = acked \cup {AckRequest(m)}
    BY DEF SendClientAck
  <1>5. ASSUME acked' = acked \cup {AckRequest(m)} PROVE Acknowledged(m.req)
    BY <1>1, <1>3, <1>5 DEF AckRequest, Acknowledged
  <1> QED
    BY <1>1, <1>4, <1>5

(* Acknowledgements come from the two handlers that have committed, and    *)
(* from no other step.                                                     *)
LEMMA AckSteps ==
  ASSUME TypeOK, HoldersRecorded, [Next]_vars
  PROVE  \/ UNCHANGED acked
         \/ UNCHANGED store /\ VersionsSame /\ \E r \in Req : Acknowledged(r)
  <1>1. \A r \in Req : WriteAt(r, "returned") => VersionsSame
    BY DEF WriteAt, VersionsSame, TypeOK
  <1>2. ASSUME NEW r \in Req, WriteAck(r)
        PROVE  /\ UNCHANGED store /\ VersionsSame
               /\ UNCHANGED acked \/ \E q \in Req : Acknowledged(q)
    <2>1. /\ UNCHANGED store /\ WriteAt(r, "returned") /\ SendClientAck(Message(r))
          /\ write[r].pc = "committed"
      BY <1>2 DEF WriteAck
    <2>2. Committed(Message(r)) /\ write[r].version # 0
      BY <2>1 DEF HoldersRecorded, WriteRecorded
    <2>3. IsMessage(Message(r)) /\ Message(r).req = r
      BY Messages
    <2>4. Genuine(Message(r))
      BY <2>2 DEF Genuine, Message
    <2> QED
      BY <1>1, <2>1, <2>2, <2>3, <2>4, AckEffect
  <1>3. ASSUME NEW c \in rpc, PropagateAck(c)
        PROVE  /\ UNCHANGED store /\ VersionsSame
               /\ UNCHANGED acked \/ \E q \in Req : Acknowledged(q)
    <2>1. UNCHANGED <<store, write>> /\ SendClientAck(c.msg) /\ c.pc = "committed"
      BY <1>3 DEF PropagateAck
    <2>2. Committed(c.msg) /\ Genuine(c.msg)
      BY <2>1 DEF HoldersRecorded, CallRecorded
    <2>3. IsMessage(c.msg)
      BY Messages
    <2>4. VersionsSame
      BY <2>1 DEF VersionsSame
    <2> QED
      BY <2>1, <2>2, <2>3, <2>4, AckEffect
  <1> QED
    BY <1>2, <1>3
    DEF Next, WriteRejected, WriteAssign, WriteStep, Handling, WriteRecord,
        WriteForward, WriteCommit, Send, PropagateStep, PropagateRecord,
        PropagateForward, PropagateCommit, CallFails, HandleRead, Terminating, vars

-----------------------------------------------------------------------------
(* The refinement *)

LEMMA InitRefines == Init => Abs!Init
  <1> SUFFICES ASSUME Init PROVE Abs!Init
    OBVIOUS
  <1>1. /\ store = [n \in Node |-> [k \in Key |-> FreshKey]] /\ acked = {}
        /\ write = [r \in Req |-> [pc |-> "idle", version |-> 0]]
    BY DEF Init
  <1>2. TailNode \in Node
    BY Positions
  <1>3. \A k \in Key : /\ store[TailNode][k].committed = 0
                       /\ store[TailNode][k].committedValue = NoReq
    <2>1. \A k \in Key : store[TailNode][k] = FreshKey
      BY <1>1, <1>2
    <2>2. FreshKey.committed = 0 /\ FreshKey.committedValue = NoReq
      BY DEF FreshKey
    <2> QED
      BY <2>1, <2>2
  <1>4. \A r \in Req : write[r].version = 0
    BY <1>1
  <1> QED
    BY <1>1, <1>3, <1>4 DEF Abs!Init

(* Nothing the clients can see has changed. *)
LEMMA StutterRefines ==
  ASSUME VersionsSame, CommittedSame, UNCHANGED acked
  PROVE  UNCHANGED Abs!vars
  BY DEF VersionsSame, CommittedSame, CommittedSameAt, Abs!vars

LEMMA AcknowledgeRefines ==
  ASSUME UNCHANGED store, VersionsSame, NEW r \in Req, Acknowledged(r)
  PROVE  Abs!Acknowledge(r)
  <1>1. KeyOf[r] \in Key
    BY KeyOfAssumption
  <1> QED
    BY <1>1 DEF VersionsSame, Acknowledged, Abs!Acknowledge

(* assign_next_version gives the successor of the newest version, whatever *)
(* other handlers are running.                                             *)
LEMMA AssignRefines ==
  ASSUME IInv, NEW r \in Req, NEW n \in Node, WriteAssign(r, n)
  PROVE  Abs!Accept(r)
  <1> DEFINE v == store[HeadNode][KeyOf[r]].next
  <1>0. TypeOK /\ HoldersRecorded /\ VersionsBelowNext /\ NextIsAssigned
    BY DEF IInv
  <1>1. /\ v \in Nat /\ KeyOf[r] \in Key
        /\ \A q \in Req : write[q].version \in Nat
    BY <1>0, StoreType, Positions
  <1>2. /\ n = HeadNode
        /\ write' = [write EXCEPT ![r] = [pc |-> "assigned", version |-> v + 1]]
        /\ CommittedSame
    BY <1>0, AssignRaises, Positions DEF CommittedSame, CommittedSameAt
  <1>3. write[r].version = 0 /\ UNCHANGED acked
    BY <1>0 DEF WriteAssign, HoldersRecorded, WriteRecorded
  <1>4. /\ write'[r].version = v + 1
        /\ \A q \in Req : q # r => write'[q].version = write[q].version
    BY <1>0, <1>2 DEF TypeOK
  <1>5. \A q \in Req : KeyOf[q] = KeyOf[r] => write[q].version < v + 1
    BY <1>0, <1>1 DEF VersionsBelowNext
  <1>6. v + 1 = 1 \/ \E q \in Req : /\ KeyOf[q] = KeyOf[r] /\ write[q].version # 0
                                    /\ write[q].version + 1 = v + 1
    BY <1>0, <1>1 DEF NextIsAssigned
  <1>7. [q \in Req |-> write[q].version]'
           = [[q \in Req |-> write[q].version] EXCEPT ![r] = v + 1]
    BY <1>4
  <1>8. v + 1 # 0
    BY <1>1
  <1>9. UNCHANGED [k \in Key |-> [version |-> store[TailNode][k].committed,
                                  value   |-> store[TailNode][k].committedValue]]
    BY <1>2 DEF CommittedSame, CommittedSameAt
  <1> HIDE DEF v
  <1> QED
    BY <1>3, <1>4, <1>5, <1>6, <1>7, <1>8, <1>9 DEF Abs!Accept

(* Recording or committing a version is invisible, or it commits a newer   *)
(* write at the tail.  A second commit of a version changes nothing,       *)
(* because a version names one write.                                      *)
LEMMA RaiseRefines ==
  ASSUME IInv, IInv', NEW n \in Node, NEW r \in Req, write[r].version # 0,
         Raised(n, KeyOf[r], r, write[r].version), VersionsSame, UNCHANGED acked
  PROVE  UNCHANGED Abs!vars \/ Abs!Commit(r)
  <1> DEFINE k == KeyOf[r]
             v == write[r].version
             old == store[TailNode][k]
             new == store'[TailNode][k]
  <1>0. TypeOK /\ TypeOK' /\ VersionNamesOneWrite
    BY DEF IInv
  <1>1. /\ k \in Key /\ v \in Nat /\ TailNode \in Node
        /\ old.committed \in Nat /\ new.committed \in Nat
    <2>1. k \in Key /\ v \in Nat /\ TailNode \in Node /\ old.committed \in Nat
      BY <1>0, StoreType, Positions
    <2>2. store'[TailNode][k] \in KeyState
      BY <1>0, <2>1 DEF TypeOK
    <2> QED
      BY <2>1, <2>2, KeyStateFields
  <1>2. \A j \in Key : j # k \/ n # TailNode => CommittedSameAt(j)
    BY <1>1 DEF Raised, CommittedSameAt
  <1>3. CASE CommittedSameAt(k)
    <2>1. CommittedSame
      BY <1>2, <1>3 DEF CommittedSame
    <2> QED
      BY <2>1, StutterRefines
  <1>4. CASE ~CommittedSameAt(k)
    <2>1. n = TailNode
      BY <1>1, <1>2, <1>4
    <2>2. new.committed = v /\ new.committedValue = r
      BY <1>4, <2>1 DEF Raised, CommittedSameAt
    <2>3. new.committed >= old.committed
      BY <1>1, <2>1 DEF Raised, StoreGrows, AtOrAbove
    <2>4. v # old.committed
      <3> SUFFICES ASSUME v = old.committed PROVE FALSE
        OBVIOUS
      <3>1. /\ old.committedValue \in Req /\ KeyOf[old.committedValue] = k
            /\ write[old.committedValue].version = v
        BY <1>0, <1>1 DEF VersionNamesOneWrite, HoldsWrite
      <3>2. old.committedValue = r
        BY <1>0, <3>1 DEF VersionNamesOneWrite
      <3> QED
        BY <1>4, <2>2, <3>2 DEF CommittedSameAt
    <2>5. v > old.committed
      BY <1>1, <2>2, <2>3, <2>4
    <2>6. \A j \in Key \ {k} : CommittedSameAt(j)
      BY <1>2
    <2>7. [j \in Key |-> [version |-> store[TailNode][j].committed,
                          value   |-> store[TailNode][j].committedValue]]'
            = [[j \in Key |-> [version |-> store[TailNode][j].committed,
                               value   |-> store[TailNode][j].committedValue]]
                 EXCEPT ![k] = [version |-> v, value |-> r]]
      BY <1>1, <2>2, <2>6 DEF CommittedSameAt
    <2>8. UNCHANGED [q \in Req |-> write[q].version]
      BY DEF VersionsSame
    <2> QED
      BY <1>1, <2>5, <2>7, <2>8 DEF Abs!Commit
  <1> QED
    BY <1>3, <1>4

LEMMA StepRefines == IInv /\ IInv' /\ [Next]_vars => [Abs!Next]_(Abs!vars)
  <1> SUFFICES ASSUME IInv, IInv', [Next]_vars PROVE [Abs!Next]_(Abs!vars)
    OBVIOUS
  <1>0. TypeOK /\ HoldersRecorded
    BY DEF IInv
  <1>1. ASSUME NEW r \in Req, NEW n \in Node, WriteAssign(r, n)
        PROVE  [Abs!Next]_(Abs!vars)
    BY <1>1, AssignRefines DEF Abs!Next
  <1>2. CASE UNCHANGED store /\ VersionsSame /\ \E r \in Req : Acknowledged(r)
    BY <1>2, AcknowledgeRefines DEF Abs!Next
  <1>3. CASE UNCHANGED store /\ VersionsSame /\ UNCHANGED acked
    BY <1>3, StutterRefines DEF CommittedSame, CommittedSameAt
  <1>4. ASSUME VersionsSame, UNCHANGED acked,
               NEW n \in Node, NEW r \in Req, write[r].version # 0,
               Raised(n, KeyOf[r], r, write[r].version)
        PROVE  [Abs!Next]_(Abs!vars)
    BY <1>4, RaiseRefines DEF Abs!Next
  <1>5. VersionsSame \/ \E r \in Req, n \in Node : WriteAssign(r, n)
    BY <1>0, VersionsChange DEF VersionsSame
  <1> QED
    BY <1>0, <1>1, <1>2, <1>3, <1>4, <1>5, AckSteps, StoreSteps

(* The chain implements the register: every write gets the successor of    *)
(* the newest version of its key, committed versions only grow and name    *)
(* the write they were given to, and only what is committed at the tail is *)
(* acknowledged.                                                           *)
THEOREM Refinement == Spec => Register
  <1>1. Spec => Abs!Spec
    BY InitRefines, StepRefines, Invariance, PTL DEF Spec, Abs!Spec
  <1> QED
    BY <1>1 DEF Register

-----------------------------------------------------------------------------
(* Reads *)

(* The last answer is not newer than what the tail has committed. *)
AnswerCommitted ==
    \A k \in Key : answer[k].version <= store[TailNode][k].committed

LEMMA ReadSteps ==
  ASSUME TypeOK, [Next]_vars
  PROVE  \/ UNCHANGED answer
         \/ /\ UNCHANGED store
            /\ \E k \in Key : answer' = [answer EXCEPT ![k] =
                  Found(store[TailNode][k].committedValue, store[TailNode][k].committed)]
  <1>1. ASSUME NEW n \in Node, NEW k \in Key, HandleRead(n, k)
        PROVE  /\ UNCHANGED store
               /\ answer' = [answer EXCEPT ![k] =
                    Found(store[TailNode][k].committedValue, store[TailNode][k].committed)]
    BY <1>1 DEF HandleRead, ReadCommitted, NotFound, IsTail
  <1> QED
    BY <1>1
    DEF Next, WriteRejected, WriteAssign, WriteStep, Handling, WriteRecord,
        WriteForward, WriteCommit, WriteAck, Send, PropagateStep, PropagateRecord,
        PropagateForward, PropagateCommit, PropagateAck, CallFails, Terminating, vars

LEMMA InitAnswerCommitted == Init => AnswerCommitted
  <1> SUFFICES ASSUME Init PROVE AnswerCommitted
    OBVIOUS
  <1>1. \A k \in Key : answer[k] = NotFound /\ store[TailNode][k] = FreshKey
    BY Positions DEF Init
  <1>2. FreshKey.committed = 0 /\ NotFound.version = 0
    BY DEF FreshKey, NotFound
  <1>3. ASSUME NEW k \in Key
        PROVE  answer[k].version <= store[TailNode][k].committed
    <2>1. answer[k].version = 0 /\ store[TailNode][k].committed = 0
      BY <1>1, <1>2
    <2> QED
      BY <2>1
  <1> QED
    BY <1>3 DEF AnswerCommitted

LEMMA CommittedOfTail ==
  ASSUME TypeOK
  PROVE  \A k \in Key : /\ store[TailNode][k].committed \in Nat
                        /\ answer[k].version \in Nat
  <1>1. \A k \in Key : answer[k].version \in Nat
    BY DEF TypeOK
  <1> QED
    BY <1>1, StoreType, Positions

LEMMA NextAnswerCommitted ==
  IInv /\ IInv' /\ AnswerCommitted /\ [Next]_vars => AnswerCommitted'
  <1> SUFFICES ASSUME IInv, IInv', AnswerCommitted, [Next]_vars, NEW k \in Key
               PROVE  answer'[k].version <= store'[TailNode][k].committed
    BY DEF AnswerCommitted
  <1>0. TypeOK /\ TypeOK' /\ HoldersRecorded
    BY DEF IInv
  <1>1. /\ store[TailNode][k].committed \in Nat /\ answer[k].version \in Nat
        /\ store'[TailNode][k].committed \in Nat
        /\ answer[k].version <= store[TailNode][k].committed
        /\ store'[TailNode][k].committed >= store[TailNode][k].committed
    <2>1. /\ store[TailNode][k].committed \in Nat /\ answer[k].version \in Nat
      BY <1>0, CommittedOfTail
    <2>2. store'[TailNode][k].committed \in Nat
      <3>1. store'[TailNode][k] \in KeyState
        BY <1>0, Positions DEF TypeOK
      <3> QED
        BY <3>1, KeyStateFields
    <2>3. store'[TailNode][k].committed >= store[TailNode][k].committed
      BY <1>0, StepGrows, Positions DEF StoreGrows, AtOrAbove
    <2> QED
      BY <2>1, <2>2, <2>3 DEF AnswerCommitted
  <1>2. CASE UNCHANGED answer
    BY <1>1, <1>2
  <1>3. CASE /\ UNCHANGED store
             /\ \E j \in Key : answer' = [answer EXCEPT ![j] =
                  Found(store[TailNode][j].committedValue, store[TailNode][j].committed)]
    BY <1>0, <1>1, <1>3 DEF Found, TypeOK
  <1> QED
    BY <1>0, <1>2, <1>3, ReadSteps

LEMMA StepReadsSeeAcked ==
  ASSUME IInv, AnswerCommitted, [Next]_vars, NEW k \in Key, answer'[k] # answer[k]
  PROVE  /\ answer'[k].version >= answer[k].version
         /\ \A a \in acked : KeyOf[a.req] = k => answer'[k].version >= a.version
         /\ answer'[k].version <= store[TailNode][k].committed
  <1>0. TypeOK /\ AckedCommitted
    BY DEF IInv
  <1>1. /\ store[TailNode][k].committed \in Nat /\ answer[k].version \in Nat
        /\ answer[k].version <= store[TailNode][k].committed
    BY <1>0, CommittedOfTail DEF AnswerCommitted
  <1>2. answer'[k].version = store[TailNode][k].committed
    BY <1>0, ReadSteps DEF Found, TypeOK
  <1>3. \A a \in acked : KeyOf[a.req] = k => store[TailNode][k].committed >= a.version
    BY <1>0 DEF AckedCommitted, Committed
  <1> QED
    BY <1>1, <1>2, <1>3

(* A read of the tail returns a version at least as new as every write     *)
(* acknowledged before it and as every earlier read.                       *)
THEOREM ReadTheorem == Spec => ReadsSeeAcked
  <1>1. Spec => [](IInv /\ AnswerCommitted)
    BY InitAnswerCommitted, NextAnswerCommitted, Invariance, PTL DEF Spec
  <1> DEFINE Sees == \A k \in Key : answer'[k] # answer[k] =>
          /\ answer'[k].version >= answer[k].version
          /\ \A a \in acked : KeyOf[a.req] = k => answer'[k].version >= a.version
          /\ answer'[k].version <= store[TailNode][k].committed
  <1>2. IInv /\ AnswerCommitted /\ [Next]_vars => Sees
    BY StepReadsSeeAcked
  <1>3. Spec => [][Sees]_vars
    <2> HIDE DEF Sees
    <2> QED
      BY <1>1, <1>2, PTL DEF Spec
  <1> QED
    BY <1>3 DEF ReadsSeeAcked
=============================================================================
