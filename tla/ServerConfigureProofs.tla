------------------------ MODULE ServerConfigureProofs ------------------------
(***************************************************************************)
(* Theorems about what Configure may and may not disturb, for any number   *)
(* of servers, keys, requests, Configure loops and restarts: the writes of *)
(* an orderly deployment in CHAIN or CROWN mode and, below, the acks of    *)
(* the worker that every Configure in CRAQ mode stops and starts.          *)
(*                                                                         *)
(* The invariant has three parts.  Always holds whatever the clients do:   *)
(* at a server whose Configure calls have never run at once, the strategy  *)
(* is of the mode of the NodeConfig but between the two steps of the call  *)
(* that replaces them, and nothing runs in a server before its first       *)
(* Configure.  Unwritten says that before the first write all servers are  *)
(* empty.  And after the first write of an orderly deployment all servers  *)
(* run in one mode M, and so does every call under way: then Configure     *)
(* puts in place what is there, at whichever servers it overlaps with      *)
(* another, and the argument of CHAIN and of CROWN mode applies, along the *)
(* way Hop, Place of that mode.                                            *)
(***************************************************************************)
EXTENDS ServerConfigure, AckWorker, ReplicaServerProofs, SequenceTheorems

-----------------------------------------------------------------------------
(* What holds at every moment *)

(* A call whose handler runs may have lost its strategy. *)
AnyCall == [from: Node, to: Node, msg: PropagateRequest,
            pc: {"sent", "recorded", "committed", "acked", "orphaned"}, held: BOOLEAN]

Typed == /\ TypeOK /\ rpc \subseteq AnyCall
         /\ \A p \in Pass : loop[p].called # 0 => loop[p].mode \in Modes

(* Messages and acks are of requests that a server has taken, and these    *)
(* have versions.                                                          *)
Issued(m) == write[m.req].version # 0

Taken ==
    /\ \A n \in Node : \A t \in Tasks(n) : Issued(t.msg)
    /\ \A c \in rpc : Issued(c.msg)
    /\ \A a \in acked : Issued(a)
    /\ \A r \in Req : /\ write[r].pc = "idle" => write[r].version = 0
                      /\ write[r].pc \notin {"idle", "failed"} => write[r].version # 0

(* The strategy and the NodeConfig of a server at which no two Configure   *)
(* calls have run at once are of one mode, but for the call between the    *)
(* steps that replace them.                                                *)
OneMode ==
    \A n \in Node \ overlapped :
        /\ \A c, d \in AtNode(n) : c = d
        /\ \A c \in AtNode(n) : c.pc = "swap" <=> server[n].strategy # c.mode
        /\ \/ server[n].strategy \in {"none", server[n].config.mode}
           \/ \E c \in AtNode(n) : c.pc = "config"

(* A server without a strategy has no data, and no handler runs in it. *)
EmptyBefore ==
    \A n \in Node : server[n].strategy = "none" =>
        /\ \A k \in Key : store[n][k] = FreshKey
        /\ \A r \in Handling : write[r].node # n
        /\ \A c \in rpc : c.to = n => c.pc = "sent"

(* Before the first write there are no data anywhere. *)
Unwritten == ~Written => \A n \in Node, k \in Key : store[n][k] = FreshKey

Always == Typed /\ Taken /\ OneMode /\ EmptyBefore /\ Unwritten

-----------------------------------------------------------------------------
(* What holds in an orderly deployment, all of whose servers are in mode M *)

(* The way of a key's writes: where it starts and ends is KeyHead and      *)
(* KeyTail, Hop is its next node, Place how far a node is on it.           *)
Hop(M, n) == BuildNodeConfig(M, n).successor
Place(M, k, n) == IF M = "CROWN" THEN (n + N - HeadOf[k]) % N ELSE n

Recorded(n, m) == store[n][KeyOf[m.req]].seen >= m.version
Committed(M, m) ==
    store[KeyTail(M, KeyOf[m.req])][KeyOf[m.req]].committed >= m.version
Genuine(m) == m.version # 0 /\ m.version = write[m.req].version

(* Its origin is what the servers of a ring compute the tail from. *)
FromHead(M, m) == m.origin = KeyHead(M, KeyOf[m.req])

TaskRecorded(M, n, t) ==
    /\ n # KeyTail(M, KeyOf[t.msg.req]) /\ t.successor = Hop(M, n)
    /\ Genuine(t.msg) /\ FromHead(M, t.msg)
    /\ Recorded(n, t.msg)

CallRecorded(M, c) ==
    /\ c.from # KeyTail(M, KeyOf[c.msg.req]) /\ c.to = Hop(M, c.from)
    /\ Genuine(c.msg) /\ FromHead(M, c.msg)
    /\ Recorded(c.from, c.msg)
    /\ c.pc # "orphaned"
    /\ c.pc # "sent" => Recorded(c.to, c.msg)
    /\ c.pc = "committed" => Committed(M, c.msg)

WriteRecorded(M, r) ==
    LET k == KeyOf[r]
    IN  /\ write[r].version = 0 <=> write[r].pc \in {"idle", "failed"}
        /\ write[r].version # 0 => write[r].node = KeyHead(M, k)
        /\ write[r].pc # "orphaned"
        /\ write[r].pc \in {"recorded", "committed", "returned"}
              => Recorded(KeyHead(M, k), Message(r))
        /\ write[r].pc = "committed"
              => KeyHead(M, k) = KeyTail(M, k) /\ Committed(M, Message(r))

HoldersRecorded(M) ==
    /\ \A n \in Node : \A t \in Tasks(n) : TaskRecorded(M, n, t)
    /\ \A c \in rpc : CallRecorded(M, c)
    /\ \A r \in Req : WriteRecorded(M, r)

(* No node is ahead of one before it on the way of the key. *)
Ordered(M) ==
    \A k \in Key : \A i, j \in Node :
        Place(M, k, i) < Place(M, k, j) => store[i][k].seen >= store[j][k].seen

CommittedIsSeen ==
    \A n \in Node, k \in Key : store[n][k].committed <= store[n][k].seen

AckedCommitted(M) == \A a \in acked : Genuine(a) /\ Committed(M, a)

Facts(M) == /\ HoldersRecorded(M)
            /\ Ordered(M)
            /\ CommittedIsSeen
            /\ AckedCommitted(M)

Runs(M) == Settled(M) /\ Facts(M)

IInv == Always /\ (orderly /\ Written => \E M \in Modes : Runs(M))

-----------------------------------------------------------------------------
(* The way of a key *)

(* Remainders, for the ring of CROWN mode *)
LEMMA Mod ==
  ASSUME NEW x \in Nat, x < N + N
  PROVE  x % N = IF x < N THEN x ELSE x - N
  BY ConfigureAssumption, Z3

(* The constants, in the form the proofs below use *)
LEMMA Nodes ==
  /\ N \in Nat /\ N > 0 /\ \A n : n \in Node <=> n \in Nat /\ n < N
  /\ \A k \in Key : HeadOf[k] \in Node
  /\ \A r \in Req : KeyOf[r] \in Key
  /\ NoStub \notin Node
  BY ConfigureAssumption, KeyOfAssumption DEF NoStub

(* The ring without the remainders *)
LEMMA Ring ==
  ASSUME NEW k \in Key, NEW n \in Node
  PROVE  /\ Hop("CROWN", n) = IF n = N - 1 THEN 0 ELSE n + 1
         /\ KeyTail("CROWN", k) = IF HeadOf[k] = 0 THEN N - 1 ELSE HeadOf[k] - 1
         /\ Place("CROWN", k, n) = IF n >= HeadOf[k] THEN n - HeadOf[k]
                                                   ELSE n + N - HeadOf[k]
  <1> DEFINE h == HeadOf[k]
             x == n + 1
             y == h + N - 1
             z == n + N - h
  <1>1. /\ h \in Nat /\ h < N /\ n \in Nat /\ n < N /\ N \in Nat /\ N > 0
    BY Nodes
  <1>2. /\ Hop("CROWN", n) = x % N /\ KeyTail("CROWN", k) = y % N
        /\ Place("CROWN", k, n) = z % N
    BY DEF Hop, BuildNodeConfig, KeyTail, Place
  <1>3. /\ x = n + 1 /\ y = h + N - 1 /\ z = n + N - h
    OBVIOUS
  <1> HIDE DEF h, x, y, z
  <1>4. /\ x \in Nat /\ x < N + N /\ y \in Nat /\ y < N + N /\ z \in Nat /\ z < N + N
    BY <1>1, <1>3
  <1>5. /\ x % N = IF x < N THEN x ELSE x - N
        /\ y % N = IF y < N THEN y ELSE y - N
        /\ z % N = IF z < N THEN z ELSE z - N
    BY <1>4, Mod
  <1>6. /\ Hop("CROWN", n) = IF n = N - 1 THEN 0 ELSE n + 1
        /\ KeyTail("CROWN", k) = IF h = 0 THEN N - 1 ELSE h - 1
        /\ Place("CROWN", k, n) = IF n >= h THEN n - h ELSE n + N - h
    BY <1>1, <1>2, <1>3, <1>5
  <1> QED
    BY <1>6 DEF h

(* Every node but the tail of a key is one nearer to its head than its     *)
(* next hop, and no two nodes are equally far.                             *)
LEMMA Way ==
  ASSUME NEW M \in Modes, NEW k \in Key
  PROVE  /\ KeyHead(M, k) \in Node /\ KeyTail(M, k) \in Node
         /\ Place(M, k, KeyHead(M, k)) = 0
         /\ \A n \in Node :
               /\ Place(M, k, n) \in Nat
               /\ n # KeyTail(M, k) => /\ Hop(M, n) \in Node
                                       /\ Place(M, k, Hop(M, n)) = Place(M, k, n) + 1
                                       /\ Place(M, k, n) < Place(M, k, KeyTail(M, k))
         /\ \A i, j \in Node : Place(M, k, i) = Place(M, k, j) => i = j
  <1>1. M \in {"CHAIN", "CROWN"}
    BY ConfigureAssumption
  <1>2. CASE M = "CHAIN"
    <2>1. /\ KeyHead(M, k) = 0 /\ KeyTail(M, k) = N - 1
          /\ \A n \in Node : Place(M, k, n) = n /\ Hop(M, n) = n + 1
      BY <1>2 DEF KeyHead, KeyTail, Place, Hop, BuildNodeConfig
    <2> QED
      BY <2>1, Nodes
  <1>3. CASE M = "CROWN"
    <2> DEFINE h == HeadOf[k]
               t == KeyTail(M, k)
    <2>1. h \in Nat /\ h < N /\ KeyHead(M, k) = h /\ N \in Nat /\ N > 0
      BY <1>3, Nodes DEF KeyHead
    <2>2. t = IF h = 0 THEN N - 1 ELSE h - 1
      BY <1>3, <2>1, Nodes, Ring
    <2>3. \A n \in Node :
             /\ Hop(M, n) = IF n = N - 1 THEN 0 ELSE n + 1
             /\ Place(M, k, n) = IF n >= h THEN n - h ELSE n + N - h
      BY <1>3, Ring
    <2> HIDE DEF h, t
    <2>4. h \in Node /\ t \in Node /\ \A n \in Node : n \in Nat /\ n < N /\ Hop(M, n) \in Node
      BY <2>1, <2>2, <2>3, Nodes
    <2>5. Place(M, k, h) = 0
      BY <2>1, <2>3, <2>4
    <2>6. \A n \in Node :
             /\ Place(M, k, n) \in Nat
             /\ n # t => /\ Place(M, k, Hop(M, n)) = Place(M, k, n) + 1
                         /\ Place(M, k, n) < Place(M, k, t)
      BY <2>1, <2>2, <2>3, <2>4
    <2>7. \A i, j \in Node : Place(M, k, i) = Place(M, k, j) => i = j
      BY <2>1, <2>3, <2>4
    <2> QED
      BY <2>1, <2>4, <2>5, <2>6, <2>7 DEF h, t
  <1> QED
    BY <1>1, <1>2, <1>3

(* The servers, configured alike, agree with the clients: the head commits *)
(* alone if the way has no other node, and whoever takes itself for the    *)
(* tail of a message from the head is the tail of its key.                 *)
LEMMA ServersAgree ==
  ASSUME NEW M \in Modes, NEW n \in Node, server[n] = ConfiguredServer(M, n)
  PROVE  /\ server[n].strategy = M /\ server[n].config.mode = M
         /\ server[n].config = BuildNodeConfig(M, n)
         /\ server[n].successor = Hop(M, n)
         /\ server[n].config.successor = Hop(M, n)
         /\ \A k \in Key : n = KeyHead(M, k) =>
               (CommitsAlone(n) <=> n = KeyTail(M, k))
         /\ \A m : m.req \in Req /\ FromHead(M, m) =>
               (IsRequestTail(n, m) <=> n = KeyTail(M, KeyOf[m.req]))
  <1>1. M \in {"CHAIN", "CROWN"}
    BY ConfigureAssumption
  <1>2. /\ server[n].strategy = M /\ server[n].config = BuildNodeConfig(M, n)
        /\ server[n].successor = Hop(M, n)
    BY DEF ConfiguredServer, Hop
  <1>3. /\ server[n].config.mode = M /\ server[n].config.successor = Hop(M, n)
        /\ server[n].config.isTail = (M = "CHAIN" /\ n = N - 1)
        /\ server[n].config.count = IF M = "CROWN" THEN N ELSE 0
    BY <1>2 DEF BuildNodeConfig, Hop
  <1>4. CASE M = "CHAIN"
    BY <1>2, <1>3, <1>4 DEF KeyHead, KeyTail, CommitsAlone, IsRequestTail
  <1>5. CASE M = "CROWN"
    <2>1. CommitsAlone(n) <=> N <= 1
      BY <1>2, <1>3, <1>5 DEF CommitsAlone
    <2>2. \A k \in Key : n = KeyHead(M, k) => (n = KeyTail(M, k) <=> N <= 1)
      BY <1>5, Ring, Nodes DEF KeyHead
    <2>3. ASSUME NEW m, m.req \in Req, FromHead(M, m)
          PROVE  IsRequestTail(n, m) <=> n = KeyTail(M, KeyOf[m.req])
      <3>1. KeyOf[m.req] \in Key /\ m.origin = HeadOf[KeyOf[m.req]]
        BY <1>5, <2>3, Nodes DEF FromHead, KeyHead
      <3>2. IsRequestTail(n, m) <=> (N > 1 => n = (m.origin + N - 1) % N)
        BY <1>2, <1>3, <1>5 DEF IsRequestTail
      <3>3. KeyTail(M, KeyOf[m.req]) = (m.origin + N - 1) % N
        BY <1>5, <3>1 DEF KeyTail
      <3>4. N <= 1 => n = KeyTail(M, KeyOf[m.req])
        BY <1>5, <3>1, Ring, Nodes
      <3> QED
        BY <3>2, <3>3, <3>4, Nodes
    <2> QED
      BY <1>2, <1>3, <2>1, <2>2, <2>3
  <1> QED
    BY <1>1, <1>4, <1>5

-----------------------------------------------------------------------------
(* The kinds of steps *)

(* A step of a Configure loop or call that leaves every strategy in place *)
LoopStep ==
    /\ UNCHANGED <<store, queue, rpc, lost, acked, write>>
    /\ \/ \E p \in Pass : NextConfigure(p) \/ \E m \in Modes : StartConfigure(p, m)
       \/ \E c \in calls : ConfigureFails(c) \/ ConfigureBegins(c)
                               \/ ConfigureNode(c) \/ ConfigureStubs(c)

(* A step that destroys the strategy of a server with its data *)
Swapping(c, n) == c \in calls /\ c.node = n /\ ConfigureStrategy(c)
EndStep(n) == Restart(n) \/ \E c \in calls : Swapping(c, n)

HandlerStep ==
    /\ UNCHANGED <<server, loop, calls, overlapped>>
    /\ \/ \E r \in Req, n \in Node : WriteRejected(r, n) \/ WriteAssign(r, n)
       \/ \E r \in Handling : WriteStep(r)
       \/ \E n \in Node : Send(n)
       \/ \E c \in rpc : PropagateStep(c) \/ CallFails(c)
       \/ UNCHANGED vars

(* Every step is of the loops, of a handler or worker, or ends a strategy. *)
LEMMA Steps ==
  ASSUME \A c \in calls : c.node \in Node, [Next]_vars
  PROVE  LoopStep \/ HandlerStep \/ \E n \in Node : EndStep(n)
  <1>1. ASSUME NEW p \in Pass, NextConfigure(p) \/ \E m \in Modes : StartConfigure(p, m)
        PROVE  LoopStep
    BY <1>1 DEF NextConfigure, StartConfigure, LoopStep
  <1>2. ASSUME NEW c \in calls, ConfigureFails(c) \/ ConfigureStep(c)
        PROVE  LoopStep \/ \E n \in Node : EndStep(n)
    <2>1. CASE ConfigureFails(c)
      BY <2>1 DEF ConfigureFails, LoopStep
    <2>2. CASE ConfigureBegins(c)
      BY <2>2 DEF ConfigureBegins, LoopStep
    <2>3. CASE ConfigureStrategy(c)
      BY <2>3 DEF EndStep, Swapping
    <2>4. CASE ConfigureNode(c)
      BY <2>4 DEF ConfigureNode, LoopStep
    <2>5. CASE ConfigureStubs(c)
      BY <2>5 DEF ConfigureStubs, LoopStep
    <2> QED
      BY <1>2, <2>1, <2>2, <2>3, <2>4, <2>5 DEF ConfigureStep
  <1>4. ASSUME NEW n \in Node, Restart(n) PROVE EndStep(n)
    BY <1>4 DEF EndStep
  <1>5. ASSUME NEW r \in Req, NEW m \in Modes,
               \/ WriteRejected(r, KeyHead(m, KeyOf[r]))
               \/ WriteAssign(r, KeyHead(m, KeyOf[r]))
        PROVE  HandlerStep
    <2>1. KeyHead(m, KeyOf[r]) \in Node
      BY Nodes, Way
    <2>2. UNCHANGED <<server, loop, calls, overlapped>>
      BY <1>5 DEF WriteRejected, WriteAssign, admin, ghosts
    <2> QED
      BY <1>5, <2>1, <2>2 DEF HandlerStep
  <1>6. ASSUME NEW r \in Handling, WriteStep(r) PROVE HandlerStep
    <2>1. UNCHANGED <<server, loop, calls, overlapped>>
      BY <1>6 DEF WriteStep, WriteRecord, WriteForward, WriteCommit, WriteAck,
                  OrphanedWrite, admin, ghosts
    <2> QED
      BY <1>6, <2>1 DEF HandlerStep
  <1>7. ASSUME NEW n \in Node, Send(n) PROVE HandlerStep
    BY <1>7 DEF Send, others, admin, ghosts, HandlerStep
  <1>8. ASSUME NEW c \in rpc, PropagateStep(c) \/ CallFails(c) PROVE HandlerStep
    <2>1. UNCHANGED <<server, loop, calls, overlapped>>
      BY <1>8 DEF PropagateStep, PropagateRecord, PropagateForward, PropagateCommit,
                  PropagateAck, OrphanedCall, CallFails, others, admin, ghosts
    <2> QED
      BY <1>8, <2>1 DEF HandlerStep
  <1>9. CASE UNCHANGED vars
    BY <1>9 DEF vars, admin, ghosts, HandlerStep
  <1> QED
    BY <1>1, <1>2, <1>4, <1>5, <1>6, <1>7, <1>8, <1>9 DEF Next, Terminating

-----------------------------------------------------------------------------
(* Type correctness *)

Configs == {DefaultConfig} \cup {BuildNodeConfig(m, n) : m \in Modes, n \in Node}
ServerState ==
    [strategy: Modes \cup {"none"}, config: Configs, successor: Node \cup {NoStub}]

QueueOK == queue \in [Node -> Seq(PropagateTask)]
CallsOK == rpc \subseteq AnyCall
AckedOK == acked \subseteq [req: Req, version: Nat]
ServerOK == server \in [Node -> ServerState]
LoopOK == /\ loop \in [Pass -> [mode: Modes \cup {"none"}, called: 0 .. N]]
          /\ \A p \in Pass : loop[p].called # 0 => loop[p].mode \in Modes
PendingOK == calls \subseteq [pass: Pass, node: Node, mode: Modes,
                                     pc: {"sent", "swap", "config", "stubs"}]
WriteOK == write \in [Req -> [pc: {"idle", "failed", "assigned", "recorded", "committed",
                                   "returned", "orphaned"},
                              node: Node, version: Nat]]
GhostsOK == overlapped \subseteq Node /\ lost \in BOOLEAN /\ orderly \in BOOLEAN

Parts == /\ StoreOK /\ QueueOK /\ CallsOK /\ AckedOK
         /\ ServerOK /\ LoopOK /\ PendingOK /\ WriteOK /\ GhostsOK

(* The type invariant, one variable at a time *)
LEMMA TypeParts == Typed <=> Parts
  BY DEF Typed, TypeOK, Parts, StoreOK, QueueOK, CallsOK, AckedOK, ServerOK,
         ServerState, Configs, LoopOK, PendingOK, WriteOK, GhostsOK

(* What a handler reads *)
LEMMA Reads ==
  ASSUME Parts
  PROVE  /\ \A n \in Node, k \in Key : store[n][k] \in KeyState
         /\ \A n \in Node : Tasks(n) \subseteq PropagateTask
         /\ \A n \in Node : \A t \in Tasks(n) :
               t.msg \in PropagateRequest /\ t.msg.req \in Req /\ t.msg.version \in Nat
         /\ \A c \in rpc : /\ c \in AnyCall /\ c.from \in Node /\ c.to \in Node
                           /\ c.msg \in PropagateRequest
                           /\ c.msg.req \in Req /\ c.msg.version \in Nat
         /\ \A a \in acked : a.req \in Req /\ a.version \in Nat
         /\ \A r \in Req : /\ write[r].version \in Nat /\ write[r].node \in Node
                           /\ Message(r) \in PropagateRequest
                           /\ Message(r).req = r
                           /\ Message(r).version = write[r].version
                           /\ Message(r).origin = write[r].node
  <1>1. \A n \in Node, k \in Key : store[n][k] \in KeyState
    BY DEF Parts, StoreOK
  <1>2. \A n \in Node : Tasks(n) \subseteq PropagateTask
    BY TasksType DEF Parts, QueueOK
  <1>3. \A n \in Node : \A t \in Tasks(n) :
           t.msg \in PropagateRequest /\ t.msg.req \in Req /\ t.msg.version \in Nat
    BY <1>2 DEF PropagateTask, PropagateRequest
  <1>4. \A c \in rpc : /\ c \in AnyCall /\ c.from \in Node /\ c.to \in Node
                       /\ c.msg \in PropagateRequest
                       /\ c.msg.req \in Req /\ c.msg.version \in Nat
    BY DEF Parts, CallsOK, AnyCall, PropagateRequest
  <1>5. \A a \in acked : a.req \in Req /\ a.version \in Nat
    BY DEF Parts, AckedOK
  <1>6. \A r \in Req : /\ write[r].version \in Nat /\ write[r].node \in Node
                       /\ Message(r) \in PropagateRequest
                       /\ Message(r).req = r
                       /\ Message(r).version = write[r].version
                       /\ Message(r).origin = write[r].node
    BY DEF Parts, WriteOK, Message, PropagateRequest
  <1> QED
    BY <1>1, <1>2, <1>3, <1>4, <1>5, <1>6

(* A message without a stub to go to is dropped. *)
LEMMA EnqueueAny ==
  ASSUME Parts, NEW n \in Node, NEW s, NEW m \in PropagateRequest, Enqueue(n, s, m)
  PROVE  /\ QueueOK'
         /\ \A p \in Node : \A t \in Tasks(p)' :
               \/ t \in Tasks(p)
               \/ p = n /\ s \in Node /\ t = [successor |-> s, msg |-> m]
  <1>1. CASE s \in Node
    BY <1>1, EnqueueTasks DEF Parts, QueueOK
  <1>2. CASE s \notin Node
    BY <1>2 DEF Enqueue, Tasks, Parts, QueueOK
  <1> QED
    BY <1>1, <1>2

(* A worker sends a task it takes from its own queue. *)
LEMMA SendAny ==
  ASSUME Parts, NEW n \in Node, Send(n)
  PROVE  /\ QueueOK' /\ CallsOK'
         /\ \A p \in Node : Tasks(p)' \subseteq Tasks(p)
         /\ \E t \in Tasks(n) :
               rpc' = rpc \cup {[from |-> n, to |-> t.successor, msg |-> t.msg,
                                 pc |-> "sent", held |-> TRUE]}
  <1>1. TakesFront(n)
    BY DEF Send, WorkerSend, TakesFront
  <1>2. /\ QueueOK'
        /\ \A p \in Node : Tasks(p)' \subseteq Tasks(p)
        /\ \E t \in Tasks(n) :
              rpc' = rpc \cup {[from |-> n, to |-> t.successor, msg |-> t.msg,
                                pc |-> "sent", held |-> TRUE]}
    BY <1>1, TakesFrontTasks DEF Parts, QueueOK
  <1>3. \A t \in Tasks(n) : [from |-> n, to |-> t.successor, msg |-> t.msg,
                             pc |-> "sent", held |-> TRUE] \in AnyCall
    BY Reads DEF PropagateTask, AnyCall
  <1>4. CallsOK'
    BY <1>2, <1>3 DEF Parts, CallsOK
  <1> QED
    BY <1>2, <1>4

(* A handler of a call goes on to its next step. *)
LEMMA AdvanceAny ==
  ASSUME Parts, NEW c \in rpc, NEW pc \in {"recorded", "committed"}, Advance(c, pc)
  PROVE  /\ CallsOK'
         /\ \A d \in rpc' : \/ d \in rpc
                            \/ /\ d.from = c.from /\ d.to = c.to
                               /\ d.msg = c.msg /\ d.pc = pc
  <1> DEFINE e == [c EXCEPT !.pc = pc]
  <1>1. /\ e \in AnyCall
        /\ e.from = c.from /\ e.to = c.to /\ e.msg = c.msg /\ e.pc = pc
    BY DEF Parts, CallsOK, AnyCall
  <1>2. rpc' \subseteq rpc \cup {e}
    BY DEF Advance
  <1> HIDE DEF e
  <1> QED
    BY <1>1, <1>2 DEF Parts, CallsOK

(* A call that fails adds no message. *)
LEMMA CallFailsAny ==
  ASSUME Parts, NEW c \in rpc, CallFails(c)
  PROVE  /\ CallsOK' /\ lost' \in BOOLEAN /\ UNCHANGED queue
         /\ \A d \in rpc' : \E b \in rpc :
               /\ d.from = b.from /\ d.to = b.to /\ d.msg = b.msg /\ d.pc = b.pc
  <1> DEFINE e == [c EXCEPT !.held = FALSE]
  <1>1. /\ e \in AnyCall
        /\ e.from = c.from /\ e.to = c.to /\ e.msg = c.msg /\ e.pc = c.pc
    BY DEF Parts, CallsOK, AnyCall
  <1>2. rpc' \subseteq rpc \cup {e} /\ queue' = queue /\ lost' \in BOOLEAN
    BY DEF CallFails, RpcLost, RpcAbandoned, Parts, GhostsOK
  <1> HIDE DEF e
  <1> QED
    BY <1>1, <1>2 DEF Parts, CallsOK

(* An ack to a client is of the message of its handler. *)
LEMMA AckAny ==
  ASSUME Parts, NEW m \in PropagateRequest, SendClientAck(m)
  PROVE  /\ AckedOK' /\ lost' \in BOOLEAN
         /\ acked' \subseteq acked \cup {AckRequest(m)}
  <1>1. AckedOK' /\ acked' \subseteq acked \cup {AckRequest(m)}
    BY DEF Parts, AckedOK, SendClientAck, AckRequest, PropagateRequest
  <1>2. lost' = lost \/ lost' = TRUE
    BY DEF SendClientAck
  <1>3. lost \in BOOLEAN
    BY DEF Parts, GhostsOK
  <1> QED
    BY <1>1, <1>2, <1>3

(* Whatever a handler without a strategy does, it is this: *)
LEMMA OrphanAny ==
  ASSUME Parts, NEW n \in Node, NEW m \in PropagateRequest, OrphanActs(n, m)
  PROVE  /\ QueueOK' /\ AckedOK' /\ lost' \in BOOLEAN
         /\ acked' \subseteq acked \cup {AckRequest(m)}
         /\ \A p \in Node : \A t \in Tasks(p)' : t \in Tasks(p) \/ t.msg = m
  <1>1. CASE lost' = TRUE /\ UNCHANGED <<queue, acked>>
    BY <1>1 DEF Parts, QueueOK, AckedOK, Tasks
  <1>2. ASSUME NEW s \in Node, Enqueue(n, s, m), UNCHANGED <<acked, lost>>
        PROVE  /\ QueueOK' /\ AckedOK' /\ lost' \in BOOLEAN
               /\ acked' \subseteq acked \cup {AckRequest(m)}
               /\ \A p \in Node : \A t \in Tasks(p)' : t \in Tasks(p) \/ t.msg = m
    <2>1. /\ QueueOK'
          /\ \A p \in Node : \A t \in Tasks(p)' :
                t \in Tasks(p) \/ t = [successor |-> s, msg |-> m]
      BY <1>2, EnqueueAny
    <2>2. AckedOK' /\ lost' \in BOOLEAN
      BY <1>2 DEF Parts, AckedOK, GhostsOK
    <2> QED
      BY <1>2, <2>1, <2>2
  <1>3. CASE SendClientAck(m) /\ UNCHANGED queue
    <2>1. QueueOK' /\ \A p \in Node : Tasks(p)' = Tasks(p)
      BY <1>3 DEF Parts, QueueOK, Tasks
    <2> QED
      BY <1>3, <2>1, AckAny
  <1> QED
    BY <1>1, <1>2, <1>3 DEF OrphanActs

-----------------------------------------------------------------------------
(* What a step of the handlers and workers does to each variable, in any   *)
(* deployment                                                              *)

LEMMA WritesMove ==
  ASSUME Parts, HandlerStep
  PROVE  /\ WriteOK'
         /\ \A r \in Req :
               \/ write'[r] = write[r]
               \/ write[r].pc = "idle" /\ write'[r] = [write[r] EXCEPT !.pc = "failed"]
               \/ \E n \in Node : WriteAssign(r, n) /\ write'[r].version # 0
                                  /\ write'[r].node = n /\ write'[r].pc = "assigned"
               \/ /\ r \in Handling /\ WriteStep(r)
                  /\ \E pc \in {"recorded", "committed", "returned"} :
                        write'[r] = [write[r] EXCEPT !.pc = pc]
  <1> DEFINE Moves == \A r \in Req :
               \/ write'[r] = write[r]
               \/ write[r].pc = "idle" /\ write'[r] = [write[r] EXCEPT !.pc = "failed"]
               \/ \E n \in Node : WriteAssign(r, n) /\ write'[r].version # 0
                                  /\ write'[r].node = n /\ write'[r].pc = "assigned"
               \/ /\ r \in Handling /\ WriteStep(r)
                  /\ \E pc \in {"recorded", "committed", "returned"} :
                        write'[r] = [write[r] EXCEPT !.pc = pc]
  <1>1. WriteOK
    BY DEF Parts
  <1>2. UNCHANGED write => WriteOK' /\ Moves
    BY <1>1 DEF WriteOK
  <1>3. ASSUME NEW r \in Req, NEW n \in Node, WriteRejected(r, n)
        PROVE  WriteOK' /\ Moves
    BY <1>1, <1>3 DEF WriteRejected, WriteAt, WriteOK
  <1>4. ASSUME NEW r \in Req, NEW n \in Node, WriteAssign(r, n)
        PROVE  WriteOK' /\ Moves
    <2> DEFINE s == AssignNextVersion(store[n][KeyOf[r]])
    <2>1. s.next \in Nat /\ s.next # 0
      <3>1. store[n][KeyOf[r]] \in KeyState
        BY Nodes, Reads
      <3>2. store[n][KeyOf[r]].next \in Nat
        BY <3>1, KeyStateFields
      <3> QED
        BY <3>1, <3>2, AssignNextVersionEffect
    <2>2. write' = [write EXCEPT ![r] = [pc |-> "assigned", node |-> n, version |-> s.next]]
      BY <1>4 DEF WriteAssign
    <2> HIDE DEF s
    <2>3. /\ write'[r] = [pc |-> "assigned", node |-> n, version |-> s.next]
          /\ \A q \in Req : q # r => write'[q] = write[q]
      BY <1>1, <2>2 DEF WriteOK
    <2>4. WriteOK'
      BY <1>1, <2>1, <2>2 DEF WriteOK
    <2>5. /\ WriteAssign(r, n)
          /\ write'[r].version # 0 /\ write'[r].node = n /\ write'[r].pc = "assigned"
      BY <1>4, <2>1, <2>3
    <2> QED
      BY <2>3, <2>4, <2>5
  <1>5. ASSUME NEW r \in Handling, WriteStep(r) PROVE WriteOK' /\ Moves
    <2>1. r \in Req
      BY DEF Handling
    <2>2. PICK pc \in {"recorded", "committed", "returned"} : WriteAt(r, pc)
      BY <1>5 DEF WriteStep, WriteRecord, WriteForward, WriteCommit, WriteAck, OrphanedWrite
    <2>3. /\ write'[r] = [write[r] EXCEPT !.pc = pc]
          /\ \A q \in Req : q # r => write'[q] = write[q]
      BY <1>1, <2>1, <2>2 DEF WriteAt, WriteOK
    <2>4. WriteOK'
      BY <1>1, <2>1, <2>2 DEF WriteAt, WriteOK
    <2> QED
      BY <1>5, <2>3, <2>4
  <1>6. ASSUME NEW n \in Node, Send(n) PROVE UNCHANGED write
    BY <1>6 DEF Send, others
  <1>7. ASSUME NEW c \in rpc, PropagateStep(c) \/ CallFails(c) PROVE UNCHANGED write
    BY <1>7 DEF PropagateStep, PropagateRecord, PropagateForward, PropagateCommit,
                PropagateAck, OrphanedCall, CallFails, others
  <1>8. UNCHANGED vars => UNCHANGED write
    BY DEF vars
  <1> HIDE DEF Moves
  <1>9. WriteOK' /\ Moves
    BY <1>2, <1>3, <1>4, <1>5, <1>6, <1>7, <1>8 DEF HandlerStep
  <1> QED
    BY <1>9 DEF Moves

(* The messages of handlers and calls, which a new task or ack may be of *)
Handled(m) == (\E r \in Handling : m = Message(r)) \/ (\E c \in rpc : m = c.msg)

(* A new task has the message of a running handler. *)
LEMMA QueuesMove ==
  ASSUME Parts, HandlerStep
  PROVE  /\ QueueOK'
         /\ \A n \in Node : \A t \in Tasks(n)' : t \in Tasks(n) \/ Handled(t.msg)
  <1> DEFINE Moves == \A n \in Node : \A t \in Tasks(n)' : t \in Tasks(n) \/ Handled(t.msg)
  <1>1. UNCHANGED queue => QueueOK' /\ Moves
    BY DEF Parts, QueueOK, Tasks
  <1>2. ASSUME NEW r \in Handling, WriteForward(r) \/ OrphanedWrite(r)
        PROVE  QueueOK' /\ Moves
    <2>1. r \in Req /\ write[r].node \in Node /\ Message(r) \in PropagateRequest
      BY Reads DEF Handling
    <2>2. /\ QueueOK'
          /\ \A p \in Node : \A t \in Tasks(p)' : t \in Tasks(p) \/ t.msg = Message(r)
      BY <1>2, <2>1, EnqueueAny, OrphanAny DEF WriteForward, OrphanedWrite
    <2> QED
      BY <2>2 DEF Handled
  <1>3. ASSUME NEW c \in rpc, PropagateForward(c) \/ OrphanedCall(c)
        PROVE  QueueOK' /\ Moves
    <2>1. c.to \in Node /\ c.msg \in PropagateRequest
      BY Reads
    <2>2. /\ QueueOK'
          /\ \A p \in Node : \A t \in Tasks(p)' : t \in Tasks(p) \/ t.msg = c.msg
      BY <1>3, <2>1, EnqueueAny, OrphanAny DEF PropagateForward, OrphanedCall
    <2> QED
      BY <2>2 DEF Handled
  <1>4. ASSUME NEW n \in Node, Send(n) PROVE QueueOK' /\ Moves
    BY <1>4, SendAny
  <1>5. ASSUME NEW r \in Req, NEW n \in Node, WriteRejected(r, n) \/ WriteAssign(r, n)
        PROVE  UNCHANGED queue
    BY <1>5 DEF WriteRejected, WriteAssign
  <1>6. ASSUME NEW r \in Handling, WriteStep(r), ~WriteForward(r), ~OrphanedWrite(r)
        PROVE  UNCHANGED queue
    BY <1>6 DEF WriteStep, WriteRecord, WriteCommit, WriteAck
  <1>7. ASSUME NEW c \in rpc, PropagateStep(c) \/ CallFails(c),
               ~PropagateForward(c), ~OrphanedCall(c)
        PROVE  UNCHANGED queue
    BY <1>7, CallFailsAny DEF PropagateStep, PropagateRecord, PropagateCommit, PropagateAck
  <1>8. UNCHANGED vars => UNCHANGED queue
    BY DEF vars
  <1> HIDE DEF Moves
  <1>9. QueueOK' /\ Moves
    BY <1>1, <1>2, <1>3, <1>4, <1>5, <1>6, <1>7, <1>8 DEF HandlerStep
  <1> QED
    BY <1>9 DEF Moves

(* A call is of a task, or was there with the same message. *)
LEMMA CallsMove ==
  ASSUME Parts, HandlerStep
  PROVE  /\ CallsOK'
         /\ \A d \in rpc' :
               \/ \E n \in Node : \E t \in Tasks(n) : d.msg = t.msg /\ d.pc = "sent"
               \/ \E c \in rpc :
                     /\ d.msg = c.msg /\ d.to = c.to
                     /\ d.pc # c.pc => \/ c.pc # "sent"
                                       \/ server[c.to].strategy # "none"
  <1> DEFINE Moves == \A d \in rpc' :
               \/ \E n \in Node : \E t \in Tasks(n) : d.msg = t.msg /\ d.pc = "sent"
               \/ \E c \in rpc :
                     /\ d.msg = c.msg /\ d.to = c.to
                     /\ d.pc # c.pc => \/ c.pc # "sent"
                                       \/ server[c.to].strategy # "none"
  <1>1. rpc' \subseteq rpc => CallsOK' /\ Moves
    BY DEF Parts, CallsOK
  <1>2. ASSUME NEW n \in Node, Send(n) PROVE CallsOK' /\ Moves
    <2>1. /\ CallsOK'
          /\ \E t \in Tasks(n) :
                rpc' = rpc \cup {[from |-> n, to |-> t.successor, msg |-> t.msg,
                                  pc |-> "sent", held |-> TRUE]}
      BY <1>2, SendAny
    <2> QED
      BY <2>1
  <1>3. ASSUME NEW c \in rpc, PropagateRecord(c) \/ PropagateCommit(c)
        PROVE  CallsOK' /\ Moves
    <2>1. PICK pc \in {"recorded", "committed"} : Advance(c, pc)
      BY <1>3 DEF PropagateRecord, PropagateCommit
    <2>2. /\ CallsOK'
          /\ \A d \in rpc' : d \in rpc \/ (d.to = c.to /\ d.msg = c.msg /\ d.pc = pc)
      BY <2>1, AdvanceAny
    <2>3. c.pc # "sent" \/ server[c.to].strategy # "none"
      BY <1>3 DEF PropagateRecord, PropagateCommit
    <2> QED
      BY <2>2, <2>3
  <1>4. ASSUME NEW c \in rpc, CallFails(c) PROVE CallsOK' /\ Moves
    <2>1. /\ CallsOK'
          /\ \A d \in rpc' : \E b \in rpc : d.to = b.to /\ d.msg = b.msg /\ d.pc = b.pc
      BY <1>4, CallFailsAny
    <2> QED
      BY <2>1
  <1>5. ASSUME NEW c \in rpc, PropagateForward(c) \/ PropagateAck(c) \/ OrphanedCall(c)
        PROVE  rpc' \subseteq rpc
    BY <1>5 DEF PropagateForward, PropagateAck, OrphanedCall, Return
  <1>6. ASSUME NEW r \in Req, NEW n \in Node, WriteRejected(r, n) \/ WriteAssign(r, n)
        PROVE  rpc' \subseteq rpc
    BY <1>6 DEF WriteRejected, WriteAssign
  <1>7. ASSUME NEW r \in Handling, WriteStep(r) PROVE rpc' \subseteq rpc
    BY <1>7 DEF WriteStep, WriteRecord, WriteForward, WriteCommit, WriteAck, OrphanedWrite
  <1>8. UNCHANGED vars => rpc' \subseteq rpc
    BY DEF vars
  <1> HIDE DEF Moves
  <1>9. CallsOK' /\ Moves
    BY <1>1, <1>2, <1>3, <1>4, <1>5, <1>6, <1>7, <1>8 DEF HandlerStep, PropagateStep
  <1> QED
    BY <1>9 DEF Moves

(* A new ack has the message of a running handler. *)
LEMMA AcksMove ==
  ASSUME Parts, HandlerStep
  PROVE  /\ AckedOK' /\ lost' \in BOOLEAN
         /\ \A a \in acked' : \/ a \in acked
                              \/ \E m : Handled(m) /\ a = AckRequest(m)
  <1> DEFINE Moves == \A a \in acked' : \/ a \in acked
                                        \/ \E m : Handled(m) /\ a = AckRequest(m)
  <1>0. AckedOK /\ lost \in BOOLEAN
    BY DEF Parts, GhostsOK
  <1>1. UNCHANGED <<acked, lost>> => AckedOK' /\ lost' \in BOOLEAN /\ Moves
    BY <1>0 DEF AckedOK
  <1>2. ASSUME NEW r \in Handling, WriteAck(r) \/ OrphanedWrite(r)
        PROVE  AckedOK' /\ lost' \in BOOLEAN /\ Moves
    <2>1. r \in Req /\ write[r].node \in Node /\ Message(r) \in PropagateRequest
      BY Reads DEF Handling
    <2>2. /\ AckedOK' /\ lost' \in BOOLEAN
          /\ acked' \subseteq acked \cup {AckRequest(Message(r))}
      BY <1>2, <2>1, AckAny, OrphanAny DEF WriteAck, OrphanedWrite
    <2>3. Handled(Message(r))
      BY DEF Handled
    <2> QED
      BY <2>2, <2>3
  <1>3. ASSUME NEW c \in rpc, PropagateAck(c) \/ OrphanedCall(c)
        PROVE  AckedOK' /\ lost' \in BOOLEAN /\ Moves
    <2>1. c.to \in Node /\ c.msg \in PropagateRequest
      BY Reads
    <2>2. /\ AckedOK' /\ lost' \in BOOLEAN
          /\ acked' \subseteq acked \cup {AckRequest(c.msg)}
      BY <1>3, <2>1, AckAny, OrphanAny DEF PropagateAck, OrphanedCall
    <2>3. Handled(c.msg)
      BY DEF Handled
    <2> QED
      BY <2>2, <2>3
  <1>4. ASSUME NEW c \in rpc, CallFails(c) PROVE AckedOK' /\ lost' \in BOOLEAN /\ Moves
    <2>1. lost' \in BOOLEAN /\ acked' = acked
      BY <1>4, CallFailsAny DEF CallFails, others
    <2> QED
      BY <1>0, <2>1 DEF AckedOK
  <1>5. ASSUME NEW n \in Node, Send(n) PROVE UNCHANGED <<acked, lost>>
    BY <1>5 DEF Send, others
  <1>6. ASSUME NEW r \in Req, NEW n \in Node, WriteRejected(r, n) \/ WriteAssign(r, n)
        PROVE  UNCHANGED <<acked, lost>>
    BY <1>6 DEF WriteRejected, WriteAssign
  <1>7. ASSUME NEW r \in Handling, WriteStep(r), ~WriteAck(r), ~OrphanedWrite(r)
        PROVE  UNCHANGED <<acked, lost>>
    BY <1>7 DEF WriteStep, WriteRecord, WriteForward, WriteCommit
  <1>8. ASSUME NEW c \in rpc, PropagateStep(c), ~PropagateAck(c), ~OrphanedCall(c)
        PROVE  UNCHANGED <<acked, lost>>
    BY <1>8 DEF PropagateStep, PropagateRecord, PropagateForward, PropagateCommit
  <1>9. UNCHANGED vars => UNCHANGED <<acked, lost>>
    BY DEF vars
  <1> HIDE DEF Moves
  <1>10. AckedOK' /\ lost' \in BOOLEAN /\ Moves
    BY <1>1, <1>2, <1>3, <1>4, <1>5, <1>6, <1>7, <1>8, <1>9 DEF HandlerStep
  <1> QED
    BY <1>10 DEF Moves

(* Records and commits, with what of the store they raise *)
LEMMA StepsRaise ==
  ASSUME Parts
  PROVE  /\ \A r \in Req : WriteRecord(r) \/ WriteCommit(r)
              => StoreOK' /\ Raised(write[r].node, KeyOf[r], r, write[r].version)
         /\ \A c \in rpc : PropagateRecord(c) \/ PropagateCommit(c)
              => StoreOK' /\ Raised(c.to, KeyOf[c.msg.req], c.msg.req, c.msg.version)
  <1>1. StoreOK
    BY DEF Parts
  <1>2. ASSUME NEW r \in Req, WriteRecord(r) \/ WriteCommit(r)
        PROVE  StoreOK' /\ Raised(write[r].node, KeyOf[r], r, write[r].version)
    <2>1. /\ KeyOf[r] \in Key /\ write[r].node \in Node /\ write[r].version \in Nat
          /\ store[write[r].node][KeyOf[r]] \in KeyState
      BY Nodes, Reads
    <2>2. Raised(write[r].node, KeyOf[r], r, write[r].version)
      BY <1>1, <1>2, <2>1, RecordRaises, CommitRaises DEF WriteRecord, WriteCommit
    <2>3. StoreOK'
      BY <1>1, <1>2, <2>1, RecordIfNewerEffect, RecordLocalWriteEffect, MarkCommittedEffect,
         UpdateKeyEffect
      DEF WriteRecord, WriteCommit
    <2> QED
      BY <2>2, <2>3
  <1>3. ASSUME NEW c \in rpc, PropagateRecord(c) \/ PropagateCommit(c)
        PROVE  StoreOK' /\ Raised(c.to, KeyOf[c.msg.req], c.msg.req, c.msg.version)
    <2>1. /\ c.msg.req \in Req /\ KeyOf[c.msg.req] \in Key /\ c.to \in Node
          /\ c.msg.version \in Nat /\ store[c.to][KeyOf[c.msg.req]] \in KeyState
      BY Nodes, Reads
    <2>2. Raised(c.to, KeyOf[c.msg.req], c.msg.req, c.msg.version)
      BY <1>1, <1>3, <2>1, RecordRaises, CommitRaises DEF PropagateRecord, PropagateCommit
    <2>3. StoreOK'
      BY <1>1, <1>3, <2>1, RecordIfNewerEffect, MarkCommittedEffect, UpdateKeyEffect
      DEF PropagateRecord, PropagateCommit
    <2> QED
      BY <2>2, <2>3
  <1> QED
    BY <1>2, <1>3

(* assign_next_version changes only the counter of the node it runs at. *)
LEMMA AssignRaises ==
  ASSUME Parts, NEW r \in Req, NEW n \in Node, WriteAssign(r, n)
  PROVE  /\ StoreOK' /\ StoreGrows
         /\ write'[r] = [pc |-> "assigned", node |-> n,
                         version |-> store[n][KeyOf[r]].next + 1]
         /\ \A q \in Req : q # r => write'[q] = write[q]
         /\ store'[n][KeyOf[r]].next = store[n][KeyOf[r]].next + 1
         /\ \A m \in Node, j \in Key :
               /\ m # n => store'[m][j] = store[m][j]
               /\ store'[m][j].seen = store[m][j].seen
               /\ store'[m][j].seenValue = store[m][j].seenValue
               /\ store'[m][j].committed = store[m][j].committed
               /\ store'[m][j].committedValue = store[m][j].committedValue
  <1> DEFINE k == KeyOf[r]
             t == AssignNextVersion(store[n][k])
  <1>1. k \in Key /\ store[n][k] \in KeyState /\ StoreOK
    BY KeyOfAssumption DEF StoreOK, Parts
  <1>2. /\ t \in KeyState
        /\ t.next = store[n][k].next + 1
        /\ t.seen = store[n][k].seen /\ t.seenValue = store[n][k].seenValue
        /\ t.committed = store[n][k].committed
        /\ t.committedValue = store[n][k].committedValue
    BY <1>1, AssignNextVersionEffect
  <1>3. /\ UpdateKey(n, k, t)
        /\ write' = [write EXCEPT ![r] = [pc |-> "assigned", node |-> n, version |-> t.next]]
    BY DEF WriteAssign
  <1> HIDE DEF t
  <1>4. /\ store'[n][k] = t /\ StoreOK'
        /\ \A m \in Node, j \in Key : m # n \/ j # k => store'[m][j] = store[m][j]
    BY <1>1, <1>2, <1>3, UpdateKeyEffect
  <1>5. \A m \in Node, j \in Key :
           /\ store[m][j].next \in Nat /\ store[m][j].seen \in Nat
           /\ store[m][j].committed \in Nat
    BY <1>1, KeyStateFields DEF StoreOK
  <1>6. StoreGrows
    BY <1>1, <1>2, <1>4, <1>5 DEF StoreGrows, AtOrAbove
  <1>7. /\ write'[r] = [pc |-> "assigned", node |-> n, version |-> t.next]
        /\ \A q \in Req : q # r => write'[q] = write[q]
    BY <1>3 DEF Parts, WriteOK
  <1> QED
    BY <1>2, <1>4, <1>6, <1>7

(* The data of a server only grow, by one of the critical sections. *)
LEMMA StoreMoves ==
  ASSUME Parts, HandlerStep
  PROVE  /\ StoreOK' /\ StoreGrows
         /\ \/ UNCHANGED store
            \/ \E r \in Req, n \in Node : WriteAssign(r, n)
            \/ \E r \in Handling : /\ WriteRecord(r) \/ WriteCommit(r)
                                   /\ Raised(write[r].node, KeyOf[r], r, write[r].version)
            \/ \E c \in rpc :
                  /\ PropagateRecord(c) \/ PropagateCommit(c)
                  /\ Raised(c.to, KeyOf[c.msg.req], c.msg.req, c.msg.version)
  <1> DEFINE Moves ==
            \/ UNCHANGED store
            \/ \E r \in Req, n \in Node : WriteAssign(r, n)
            \/ \E r \in Handling : /\ WriteRecord(r) \/ WriteCommit(r)
                                   /\ Raised(write[r].node, KeyOf[r], r, write[r].version)
            \/ \E c \in rpc :
                  /\ PropagateRecord(c) \/ PropagateCommit(c)
                  /\ Raised(c.to, KeyOf[c.msg.req], c.msg.req, c.msg.version)
  <1>1. ASSUME UNCHANGED store PROVE StoreOK' /\ StoreGrows /\ Moves
    <2>1. StoreOK'
      BY <1>1 DEF Parts, StoreOK
    <2>2. \A n \in Node, k \in Key : store[n][k] \in KeyState
      BY Reads
    <2>3. StoreGrows
      BY <1>1, <2>2, KeyStateFields DEF StoreGrows, AtOrAbove
    <2> QED
      BY <1>1, <2>1, <2>3
  <1>2. ASSUME NEW r \in Req, NEW n \in Node, WriteAssign(r, n)
        PROVE  StoreOK' /\ StoreGrows /\ Moves
    BY <1>2, AssignRaises
  <1>3. ASSUME NEW r \in Handling, WriteRecord(r) \/ WriteCommit(r)
        PROVE  StoreOK' /\ StoreGrows /\ Moves
    <2>1. r \in Req
      BY DEF Handling
    <2> QED
      BY <1>3, <2>1, StepsRaise DEF Raised
  <1>4. ASSUME NEW c \in rpc, PropagateRecord(c) \/ PropagateCommit(c)
        PROVE  StoreOK' /\ StoreGrows /\ Moves
    BY <1>4, StepsRaise DEF Raised
  <1>5. ASSUME NEW r \in Req, NEW n \in Node, WriteRejected(r, n) PROVE UNCHANGED store
    BY <1>5 DEF WriteRejected
  <1>6. ASSUME NEW r \in Handling, WriteStep(r), ~WriteRecord(r), ~WriteCommit(r)
        PROVE  UNCHANGED store
    BY <1>6 DEF WriteStep, WriteForward, WriteAck, OrphanedWrite
  <1>7. ASSUME NEW c \in rpc, PropagateStep(c) \/ CallFails(c),
               ~PropagateRecord(c), ~PropagateCommit(c)
        PROVE  UNCHANGED store
    BY <1>7 DEF PropagateStep, PropagateForward, PropagateAck, OrphanedCall, CallFails, others
  <1>8. ASSUME NEW n \in Node, Send(n) PROVE UNCHANGED store
    BY <1>8 DEF Send, others
  <1>9. UNCHANGED vars => UNCHANGED store
    BY DEF vars
  <1> HIDE DEF Moves
  <1>10. StoreOK' /\ StoreGrows /\ Moves
    BY <1>1, <1>2, <1>3, <1>4, <1>5, <1>6, <1>7, <1>8, <1>9 DEF HandlerStep
  <1> QED
    BY <1>10 DEF Moves

-----------------------------------------------------------------------------
(* Always is an invariant *)

LEMMA InitAlways == Init => Always
  <1> SUFFICES ASSUME Init PROVE Always
    OBVIOUS
  <1>1. /\ store = [n \in Node |-> [k \in Key |-> FreshKey]]
        /\ queue = [n \in Node |-> <<>>] /\ rpc = {} /\ lost = FALSE /\ acked = {}
        /\ server = [n \in Node |-> FreshServer]
        /\ loop = [p \in Pass |-> [mode |-> "none", called |-> 0]] /\ calls = {}
        /\ write = [r \in Req |-> [pc |-> "idle", node |-> 0, version |-> 0]]
        /\ overlapped = {} /\ orderly = TRUE
    BY DEF Init, ServerInit, DispatcherInit
  <1>2. 0 \in Node
    BY Nodes
  <1>3. StoreOK
    BY <1>1, FreshKeyType DEF StoreOK
  <1>4. QueueOK /\ CallsOK /\ AckedOK /\ GhostsOK
    <2>1. QueueOK
      BY <1>1 DEF QueueOK
    <2>2. CallsOK /\ AckedOK
      BY <1>1 DEF CallsOK, AckedOK
    <2>3. GhostsOK
      BY <1>1 DEF GhostsOK
    <2> QED
      BY <2>1, <2>2, <2>3
  <1>5. ServerOK
    BY <1>1 DEF ServerOK, ServerState, FreshServer, Configs
  <1>6. LoopOK /\ PendingOK /\ WriteOK
    BY <1>1, <1>2, Nodes DEF LoopOK, PendingOK, WriteOK
  <1>7. Typed
    BY <1>3, <1>4, <1>5, <1>6, TypeParts DEF Parts
  <1>8. \A n \in Node : Tasks(n) = {}
    BY <1>1 DEF Tasks
  <1>9. Taken
    BY <1>1, <1>8 DEF Taken
  <1>10. OneMode
    BY <1>1 DEF OneMode, FreshServer, AtNode
  <1>11. EmptyBefore /\ Unwritten
    BY <1>1 DEF EmptyBefore, Unwritten, Handling
  <1> QED
    BY <1>7, <1>9, <1>10, <1>11 DEF Always

(* A NodeConfig is of the mode it is built for. *)
LEMMA ConfigTypes ==
  ASSUME NEW m \in Modes, NEW n \in Node
  PROVE  /\ BuildNodeConfig(m, n).mode = m
         /\ BuildNodeConfig(m, n).successor \in Node \cup {NoStub}
  <1>1. m \in {"CHAIN", "CROWN"}
    BY ConfigureAssumption
  <1>2. BuildNodeConfig(m, n).mode = m
    BY DEF BuildNodeConfig
  <1>3. CASE m = "CROWN"
    <2> DEFINE x == n + 1
    <2>1. x \in Nat /\ x < N + N
      BY Nodes
    <2>2. BuildNodeConfig(m, n).successor = x % N
      BY <1>3 DEF BuildNodeConfig
    <2>3. x = n + 1
      OBVIOUS
    <2> HIDE DEF x
    <2>4. x % N = IF x < N THEN x ELSE x - N
      BY <2>1, Mod
    <2> QED
      BY <1>2, <2>1, <2>2, <2>3, <2>4, Nodes
  <1>4. CASE m = "CHAIN"
    <2>1. BuildNodeConfig(m, n).successor = n + 1
      BY <1>4 DEF BuildNodeConfig
    <2>2. n + 1 = N \/ n + 1 \in Node
      BY Nodes
    <2> QED
      BY <1>2, <2>1, <2>2 DEF NoStub
  <1> QED
    BY <1>1, <1>2, <1>3, <1>4

(* A Configure call goes on to its next step, *)
LEMMA CallAdvances ==
  ASSUME PendingOK, NEW c \in calls, NEW pc \in {"swap", "config", "stubs"},
         ConfigureAt(c, pc)
  PROVE  /\ PendingOK'
         /\ \E e : /\ e.node = c.node /\ e.mode = c.mode /\ e.pc = pc
                  /\ calls' = (calls \ {c}) \cup {e}
                  /\ \A n : AtNode(n)' = (AtNode(n) \ {c}) \cup
                                          (IF n = c.node THEN {e} ELSE {})
  <1> DEFINE e == [c EXCEPT !.pc = pc]
  <1>1. c \in [pass: Pass, node: Node, mode: Modes, pc: {"sent", "swap", "config", "stubs"}]
    BY DEF PendingOK
  <1>2. /\ e \in [pass: Pass, node: Node, mode: Modes, pc: {"sent", "swap", "config", "stubs"}]
        /\ e.node = c.node /\ e.mode = c.mode /\ e.pc = pc
    BY <1>1
  <1>3. calls' = (calls \ {c}) \cup {e}
    BY DEF ConfigureAt
  <1> HIDE DEF e
  <1>4. PendingOK'
    BY <1>2, <1>3 DEF PendingOK
  <1>5. ASSUME NEW n
        PROVE  AtNode(n)' = (AtNode(n) \ {c}) \cup (IF n = c.node THEN {e} ELSE {})
    BY <1>2, <1>3 DEF AtNode
  <1> QED
    BY <1>2, <1>3, <1>4, <1>5

(* or is over. *)
LEMMA CallEnds ==
  ASSUME PendingOK, NEW c \in calls, calls' = calls \ {c}
  PROVE  PendingOK' /\ \A n : AtNode(n)' = AtNode(n) \ {c}
  BY DEF PendingOK, AtNode

(* A client calls a server. *)
LEMMA CallStarts ==
  ASSUME LoopOK, PendingOK, NEW p \in Pass, NEW m \in Modes, NEW n \in Node,
         CallConfigure(p, m, n)
  PROVE  /\ LoopOK' /\ PendingOK' /\ \A i : AtNode(i)' = AtNode(i)
         /\ loop'[p].mode = m /\ \A q \in Pass : q # p => loop'[q] = loop[q]
         /\ \A c \in calls' : c \in calls \/ (c.mode = m /\ c.pc = "sent")
  <1>1. n + 1 \in 0 .. N
    BY Nodes
  <1>2. /\ loop' = [loop EXCEPT ![p] = [mode |-> m, called |-> n + 1]]
        /\ calls' = calls \cup {[pass |-> p, node |-> n, mode |-> m, pc |-> "sent"]}
    BY DEF CallConfigure
  <1>3. LoopOK'
    BY <1>1, <1>2 DEF LoopOK
  <1>4. loop'[p].mode = m /\ \A q \in Pass : q # p => loop'[q] = loop[q]
    BY <1>2 DEF LoopOK
  <1>5. PendingOK'
    BY <1>2 DEF PendingOK
  <1>6. \A i : AtNode(i)' = AtNode(i)
    BY <1>2 DEF AtNode
  <1>7. \A c \in calls' : c \in calls \/ (c.mode = m /\ c.pc = "sent")
    BY <1>2
  <1> QED
    BY <1>3, <1>4, <1>5, <1>6, <1>7

(* The loops leave everything but the servers and themselves alone, and no *)
(* server's strategy changes.                                              *)
LEMMA LoopKeeps ==
  ASSUME Parts, OneMode, LoopStep
  PROVE  /\ ServerOK' /\ LoopOK' /\ PendingOK' /\ GhostsOK' /\ OneMode'
         /\ overlapped \subseteq overlapped'
         /\ \A n \in Node : server'[n].strategy = server[n].strategy
         /\ UNCHANGED <<store, queue, rpc, lost, acked, write>>
  <1> DEFINE Goal == /\ ServerOK' /\ LoopOK' /\ PendingOK' /\ GhostsOK' /\ OneMode'
                     /\ overlapped \subseteq overlapped'
                     /\ \A n \in Node : server'[n].strategy = server[n].strategy
  <1>0. ServerOK /\ LoopOK /\ PendingOK /\ GhostsOK
    BY DEF Parts
  <1>s. \A n \in Node : /\ server[n] \in ServerState
                        /\ server[n].strategy \in Modes \cup {"none"}
                        /\ server[n].config.successor \in Node \cup {NoStub}
    <2>1. \A n \in Node : server[n] \in ServerState
      BY <1>0 DEF ServerOK
    <2>2. \A n \in Node : \/ server[n].config = DefaultConfig
                          \/ \E m \in Modes, p \in Node : server[n].config = BuildNodeConfig(m, p)
      BY <2>1 DEF ServerState, Configs
    <2>3. DefaultConfig.successor = NoStub
      BY DEF DefaultConfig
    <2> QED
      BY <2>1, <2>2, <2>3, ConfigTypes DEF ServerState
  <1>u. UNCHANGED <<store, queue, rpc, lost, acked, write>>
    BY DEF LoopStep
  <1>c. \A c \in calls : c.node \in Node /\ c.mode \in Modes
    BY <1>0 DEF PendingOK
  <1>k. ASSUME LoopOK', PendingOK', UNCHANGED <<server, overlapped>>, orderly' \in BOOLEAN,
               \A n : AtNode(n)' = AtNode(n)
        PROVE  Goal
    <2>1. ServerOK' /\ GhostsOK'
      BY <1>0, <1>k, <1>u DEF ServerOK, GhostsOK
    <2>2. OneMode'
      BY <1>k DEF OneMode
    <2> QED
      BY <1>k, <2>1, <2>2
  <1>1. ASSUME NEW p \in Pass, NEW m \in Modes, StartConfigure(p, m) PROVE Goal
    <2>1. /\ CallConfigure(p, m, 0) /\ UNCHANGED <<server, overlapped>>
          /\ orderly' \in BOOLEAN /\ 0 \in Node
      BY <1>0, <1>1, Nodes DEF StartConfigure, GhostsOK
    <2> HIDE DEF Goal
    <2> QED
      BY <1>0, <1>k, <2>1, CallStarts
  <1>2. ASSUME NEW p \in Pass, NextConfigure(p) PROVE Goal
    <2>1. /\ CallConfigure(p, loop[p].mode, loop[p].called)
          /\ UNCHANGED <<server, overlapped, orderly>>
          /\ loop[p].called \in 1 .. N - 1
      BY <1>2 DEF NextConfigure, ghosts
    <2>2. loop[p].called \in Node /\ loop[p].mode \in Modes /\ orderly \in BOOLEAN
      BY <1>0, <2>1, Nodes DEF LoopOK, GhostsOK
    <2> HIDE DEF Goal
    <2> QED
      BY <1>0, <1>k, <2>1, <2>2, CallStarts
  <1>3. ASSUME NEW c \in calls, ConfigureFails(c) PROVE Goal
    <2>1. /\ c.pc = "sent" /\ calls' = calls \ {c}
          /\ UNCHANGED <<server, loop, overlapped, orderly>>
      BY <1>3 DEF ConfigureFails, ghosts
    <2>2. PendingOK' /\ \A n : AtNode(n)' = AtNode(n) \ {c}
      BY <1>0, <2>1, CallEnds
    <2>3. \A n : c \notin AtNode(n)
      BY <2>1 DEF AtNode
    <2>4. LoopOK' /\ orderly' \in BOOLEAN
      BY <1>0, <2>1 DEF LoopOK, GhostsOK
    <2>5. \A n : AtNode(n)' = AtNode(n)
      BY <2>2, <2>3
    <2> HIDE DEF Goal
    <2> QED
      BY <1>k, <2>1, <2>2, <2>4, <2>5
  <1>4. ASSUME NEW c \in calls, ConfigureBegins(c) PROVE Goal
    <2> DEFINE pc == IF Swaps(c) THEN "swap" ELSE "config"
    <2>1. /\ c.pc = "sent" /\ ConfigureAt(c, pc)
          /\ overlapped' = IF AtNode(c.node) = {} THEN overlapped
                           ELSE overlapped \cup {c.node}
          /\ UNCHANGED <<server, loop, orderly>>
      BY <1>4 DEF ConfigureBegins
    <2>2. /\ PendingOK'
          /\ \E e : /\ e.node = c.node /\ e.mode = c.mode /\ e.pc = pc
                   /\ \A n : AtNode(n)' = (AtNode(n) \ {c}) \cup
                                           (IF n = c.node THEN {e} ELSE {})
      BY <1>0, <2>1, CallAdvances
    <2>3. PICK e : /\ e.node = c.node /\ e.mode = c.mode /\ e.pc = pc
                   /\ \A n : AtNode(n)' = (AtNode(n) \ {c}) \cup
                                           (IF n = c.node THEN {e} ELSE {})
      BY <2>2
    <2>4. ServerOK' /\ LoopOK' /\ GhostsOK'
      BY <1>0, <1>u, <1>c, <2>1 DEF ServerOK, LoopOK, GhostsOK
    <2>5. overlapped \subseteq overlapped'
      BY <2>1
    <2>6. ASSUME NEW n \in Node \ overlapped'
          PROVE  /\ \A b, d \in AtNode(n)' : b = d
                 /\ \A d \in AtNode(n)' : d.pc = "swap" <=> server'[n].strategy # d.mode
                 /\ \/ server'[n].strategy \in {"none", server'[n].config.mode}
                    \/ \E d \in AtNode(n)' : d.pc = "config"
      <3>1. /\ \A b, d \in AtNode(n) : b = d
            /\ \A d \in AtNode(n) : d.pc = "swap" <=> server[n].strategy # d.mode
            /\ \/ server[n].strategy \in {"none", server[n].config.mode}
               \/ \E d \in AtNode(n) : d.pc = "config"
        BY <2>5 DEF OneMode
      <3>2. CASE n # c.node
        <4>1. AtNode(n)' = AtNode(n)
          BY <2>3, <3>2 DEF AtNode
        <4> QED
          BY <2>1, <3>1, <4>1
      <3>3. CASE n = c.node
        <4>1. AtNode(n) = {}
          BY <2>1, <3>3
        <4>2. AtNode(n)' = {e}
          BY <2>3, <3>3, <4>1
        <4>3. server[n].strategy \in {"none", server[n].config.mode}
          BY <3>1, <4>1
        <4>4. c.mode # "none"
          BY <1>c, ConfigureAssumption
        <4>5. pc = "swap" <=> server[n].strategy # c.mode
          BY <3>3, <4>3, <4>4 DEF Swaps
        <4> QED
          BY <2>1, <2>3, <4>2, <4>3, <4>5
      <3> QED
        BY <3>2, <3>3
    <2>7. OneMode'
      BY <2>6 DEF OneMode
    <2> QED
      BY <2>1, <2>2, <2>4, <2>5, <2>7
  <1>5. ASSUME NEW c \in calls, ConfigureNode(c) PROVE Goal
    <2> DEFINE p == c.node
               g == BuildNodeConfig(c.mode, p)
    <2>1. /\ c.pc = "config" /\ ConfigureAt(c, "stubs")
          /\ server' = [server EXCEPT ![p].config = g]
          /\ UNCHANGED <<loop, overlapped, orderly>>
      BY <1>5 DEF ConfigureNode, ghosts
    <2>2. /\ PendingOK'
          /\ \E e : /\ e.node = c.node /\ e.mode = c.mode /\ e.pc = "stubs"
                   /\ \A n : AtNode(n)' = (AtNode(n) \ {c}) \cup
                                           (IF n = c.node THEN {e} ELSE {})
      BY <1>0, <2>1, CallAdvances
    <2>3. PICK e : /\ e.node = c.node /\ e.mode = c.mode /\ e.pc = "stubs"
                   /\ \A n : AtNode(n)' = (AtNode(n) \ {c}) \cup
                                           (IF n = c.node THEN {e} ELSE {})
      BY <2>2
    <2>4. p \in Node /\ g.mode = c.mode /\ g \in Configs
      BY <1>c, ConfigTypes DEF Configs
    <2> HIDE DEF g
    <2>5. /\ server'[p] = [server[p] EXCEPT !.config = g]
          /\ \A n \in Node : n # p => server'[n] = server[n]
      BY <1>0, <2>1, <2>4 DEF ServerOK
    <2>6. server'[p].config = g /\ server'[p].strategy = server[p].strategy
      BY <1>s, <2>4, <2>5 DEF ServerState
    <2>7. ServerOK' /\ LoopOK' /\ GhostsOK'
      <3>1. [server[p] EXCEPT !.config = g] \in ServerState
        BY <1>s, <2>4 DEF ServerState
      <3> HIDE DEF p
      <3>2. ServerOK'
        BY <1>0, <2>1, <3>1 DEF ServerOK
      <3> QED
        BY <1>0, <1>u, <2>1, <3>2 DEF LoopOK, GhostsOK
    <2>8. \A n \in Node : server'[n].strategy = server[n].strategy
      BY <2>5, <2>6
    <2>9. ASSUME NEW n \in Node \ overlapped
          PROVE  /\ \A b, d \in AtNode(n)' : b = d
                 /\ \A d \in AtNode(n)' : d.pc = "swap" <=> server'[n].strategy # d.mode
                 /\ \/ server'[n].strategy \in {"none", server'[n].config.mode}
                    \/ \E d \in AtNode(n)' : d.pc = "config"
      <3>1. /\ \A b, d \in AtNode(n) : b = d
            /\ \A d \in AtNode(n) : d.pc = "swap" <=> server[n].strategy # d.mode
            /\ \/ server[n].strategy \in {"none", server[n].config.mode}
               \/ \E d \in AtNode(n) : d.pc = "config"
        BY DEF OneMode
      <3>2. CASE n # p
        <4>1. AtNode(n)' = AtNode(n) /\ server'[n] = server[n]
          BY <2>3, <2>5, <3>2 DEF AtNode
        <4> QED
          BY <3>1, <4>1
      <3>3. CASE n = p
        <4>1. c \in AtNode(n)
          BY <2>1, <3>3 DEF AtNode
        <4>2. AtNode(n) = {c} /\ AtNode(n)' = {e}
          BY <2>3, <3>1, <3>3, <4>1
        <4>3. server[n].strategy = c.mode
          BY <2>1, <3>1, <4>1
        <4> QED
          BY <2>3, <2>4, <2>6, <3>3, <4>2, <4>3
      <3> QED
        BY <3>2, <3>3
    <2>10. OneMode'
      BY <2>1, <2>9 DEF OneMode
    <2> QED
      BY <2>1, <2>2, <2>7, <2>8, <2>10
  <1>6. ASSUME NEW c \in calls, ConfigureStubs(c) PROVE Goal
    <2> DEFINE p == c.node
               g == server[p].config.successor
    <2>1. /\ c.pc = "stubs" /\ calls' = calls \ {c}
          /\ server' = [server EXCEPT ![p].successor = g]
          /\ UNCHANGED <<loop, overlapped, orderly>>
      BY <1>6 DEF ConfigureStubs, ghosts
    <2>2. PendingOK' /\ \A n : AtNode(n)' = AtNode(n) \ {c}
      BY <1>0, <2>1, CallEnds
    <2>4. p \in Node /\ g \in Node \cup {NoStub}
      BY <1>c, <1>s
    <2> HIDE DEF g
    <2>5. /\ server'[p] = [server[p] EXCEPT !.successor = g]
          /\ \A n \in Node : n # p => server'[n] = server[n]
      BY <1>0, <2>1, <2>4 DEF ServerOK
    <2>6. server'[p].config = server[p].config /\ server'[p].strategy = server[p].strategy
      BY <1>s, <2>4, <2>5 DEF ServerState
    <2>7. ServerOK' /\ LoopOK' /\ GhostsOK'
      <3>1. [server[p] EXCEPT !.successor = g] \in ServerState
        BY <1>s, <2>4 DEF ServerState
      <3> HIDE DEF p
      <3>2. ServerOK'
        BY <1>0, <2>1, <3>1 DEF ServerOK
      <3> QED
        BY <1>0, <1>u, <2>1, <3>2 DEF LoopOK, GhostsOK
    <2>8. \A n \in Node : /\ server'[n].strategy = server[n].strategy
                          /\ server'[n].config = server[n].config
      BY <2>5, <2>6
    <2>9. ASSUME NEW n \in Node \ overlapped
          PROVE  /\ \A b, d \in AtNode(n)' : b = d
                 /\ \A d \in AtNode(n)' : d.pc = "swap" <=> server'[n].strategy # d.mode
                 /\ \/ server'[n].strategy \in {"none", server'[n].config.mode}
                    \/ \E d \in AtNode(n)' : d.pc = "config"
      <3>1. /\ \A b, d \in AtNode(n) : b = d
            /\ \A d \in AtNode(n) : d.pc = "swap" <=> server[n].strategy # d.mode
            /\ \/ server[n].strategy \in {"none", server[n].config.mode}
               \/ \E d \in AtNode(n) : d.pc = "config"
        BY DEF OneMode
      <3>2. \A d \in AtNode(n) : d.pc = "config" => d \in AtNode(n)'
        BY <2>1, <2>2
      <3> QED
        BY <2>2, <2>8, <3>1, <3>2
    <2>10. OneMode'
      BY <2>1, <2>9 DEF OneMode
    <2> QED
      BY <2>1, <2>2, <2>7, <2>8, <2>10
  <1> HIDE DEF Goal
  <1>7. Goal
    BY <1>1, <1>2, <1>3, <1>4, <1>5, <1>6 DEF LoopStep
  <1> QED
    BY <1>u, <1>7 DEF Goal

(* The loops keep Always, since they take nothing from a server. *)
LEMMA LoopAlways ==
  ASSUME Always, LoopStep
  PROVE  Always'
  <1>1. Parts /\ OneMode /\ Taken /\ EmptyBefore /\ Unwritten
    BY TypeParts DEF Always
  <1>2. /\ ServerOK' /\ LoopOK' /\ PendingOK' /\ GhostsOK' /\ OneMode'
        /\ \A n \in Node : server'[n].strategy = server[n].strategy
        /\ UNCHANGED <<store, queue, rpc, lost, acked, write>>
    BY <1>1, LoopKeeps
  <1>3. Parts'
    BY <1>1, <1>2 DEF Parts, StoreOK, QueueOK, CallsOK, AckedOK, WriteOK
  <1>4. Typed'
    <2>1. Typed' <=> Parts'
      BY TypeParts, PTL
    <2> QED
      BY <1>3, <2>1
  <1>5. Taken'
    BY <1>1, <1>2 DEF Taken, Tasks, Issued
  <1>6. EmptyBefore' /\ Unwritten'
    BY <1>1, <1>2 DEF EmptyBefore, Unwritten, Written, Handling
  <1> QED
    BY <1>2, <1>4, <1>5, <1>6 DEF Always

(* Servers, messages and data of the other nodes are left alone. *)
LEMMA EndEffect ==
  ASSUME Parts, OneMode, NEW n \in Node, EndStep(n)
  PROVE  /\ StoreOK' /\ QueueOK' /\ CallsOK' /\ ServerOK' /\ LoopOK' /\ WriteOK'
         /\ PendingOK' /\ GhostsOK'
         /\ UNCHANGED <<acked, overlapped>>
         /\ \A m \in Node : Tasks(m)' \subseteq Tasks(m)
         /\ \A k \in Key : store'[n][k] = FreshKey
         /\ \A m \in Node : m # n => /\ store'[m] = store[m]
                                     /\ server'[m] = server[m]
         /\ \A d \in rpc' : \E c \in rpc :
               /\ d.msg = c.msg /\ d.to = c.to
               /\ \/ d.pc = c.pc /\ (d.to = n => d.pc = "sent")
                  \/ d.to = n /\ server'[n].strategy # "none"
         /\ \A r \in Req :
               \/ write'[r] = write[r] /\ ~(r \in Handling /\ write[r].node = n)
               \/ /\ r \in Handling /\ write[r].node = n
                  /\ \/ write'[r] = [write[r] EXCEPT !.pc = "failed"]
                     \/ /\ write'[r] = [write[r] EXCEPT !.pc = "orphaned"]
                        /\ server'[n].strategy # "none"
         /\ OneMode'
  <1>0. /\ StoreOK /\ QueueOK /\ CallsOK /\ ServerOK /\ LoopOK /\ WriteOK
        /\ PendingOK /\ GhostsOK
    BY DEF Parts
  <1> USE <1>0
  <1>1. ASSUME NEW b \in calls, Swapping(b, n)
        PROVE  /\ StoreOK' /\ QueueOK' /\ CallsOK' /\ ServerOK' /\ LoopOK' /\ WriteOK'
               /\ PendingOK' /\ GhostsOK'
               /\ UNCHANGED <<acked, overlapped>>
               /\ \A m \in Node : Tasks(m)' \subseteq Tasks(m)
               /\ \A k \in Key : store'[n][k] = FreshKey
               /\ \A m \in Node : m # n => /\ store'[m] = store[m]
                                           /\ server'[m] = server[m]
               /\ \A d \in rpc' : \E c \in rpc :
                     /\ d.msg = c.msg /\ d.to = c.to
                     /\ \/ d.pc = c.pc /\ (d.to = n => d.pc = "sent")
                        \/ d.to = n /\ server'[n].strategy # "none"
               /\ \A r \in Req :
                     \/ write'[r] = write[r] /\ ~(r \in Handling /\ write[r].node = n)
                     \/ /\ r \in Handling /\ write[r].node = n
                        /\ \/ write'[r] = [write[r] EXCEPT !.pc = "failed"]
                           \/ /\ write'[r] = [write[r] EXCEPT !.pc = "orphaned"]
                              /\ server'[n].strategy # "none"
               /\ OneMode'
    <2> DEFINE m == b.mode
    <2>1. /\ b.pc = "swap" /\ n = b.node
          /\ ConfigureAt(b, "config")
          /\ server' = [server EXCEPT ![n].strategy = m, ![n].successor = NoStub]
          /\ store' = [store EXCEPT ![n] = [k \in Key |-> FreshKey]]
          /\ rpc' = {IF c.to = n /\ c.pc # "sent" THEN [c EXCEPT !.pc = "orphaned"] ELSE c :
                        c \in rpc}
          /\ write' = [r \in Req |-> IF r \in Handling /\ write[r].node = n
                                     THEN [write[r] EXCEPT !.pc = "orphaned"] ELSE write[r]]
          /\ UNCHANGED <<queue, lost, acked, loop, overlapped, orderly>>
      BY <1>1 DEF Swapping, ConfigureStrategy, ghosts
    <2>2. m \in Modes /\ m # "none"
      BY ConfigureAssumption DEF PendingOK
    <2>3. LoopOK' /\ GhostsOK' /\ PendingOK'
      BY <2>1, CallAdvances DEF LoopOK, GhostsOK
    <2>4. StoreOK' /\ (\A k \in Key : store'[n][k] = FreshKey)
          /\ \A p \in Node : p # n => store'[p] = store[p]
      BY <1>0, <2>1, FreshKeyType DEF StoreOK
    <2>5. QueueOK' /\ \A p \in Node : Tasks(p)' = Tasks(p)
      BY <1>0, <2>1 DEF QueueOK, Tasks
    <2>6. ASSUME NEW c \in rpc
          PROVE  LET d == [c EXCEPT !.pc = "orphaned"]
                 IN  d \in AnyCall /\ d.msg = c.msg /\ d.to = c.to
      BY <1>0 DEF CallsOK, AnyCall
    <2>7. CallsOK'
      BY <1>0, <2>1, <2>6 DEF CallsOK
    <2> HIDE DEF m
    <2>8. /\ server'[n].strategy = m
          /\ \A p \in Node : p # n => server'[p] = server[p]
          /\ server'[n].config = server[n].config
      BY <1>0, <2>1 DEF ServerOK, ServerState
    <2>9. ServerOK'
      <3>1. server[n] \in ServerState
        BY <1>0 DEF ServerOK
      <3>2. [server[n] EXCEPT !.strategy = m, !.successor = NoStub] \in ServerState
        BY <2>2, <3>1 DEF ServerState
      <3>3. server' = [server EXCEPT ![n] = [server[n] EXCEPT !.strategy = m,
                                                              !.successor = NoStub]]
        BY <1>0, <2>1 DEF ServerOK
      <3> QED
        BY <1>0, <3>2, <3>3 DEF ServerOK
    <2>10. ASSUME NEW d \in rpc'
           PROVE  \E c \in rpc : /\ d.msg = c.msg /\ d.to = c.to
                                 /\ \/ d.pc = c.pc /\ (d.to = n => d.pc = "sent")
                                    \/ d.to = n /\ server'[n].strategy # "none"
      <3>1. PICK c \in rpc : d = IF c.to = n /\ c.pc # "sent"
                                 THEN [c EXCEPT !.pc = "orphaned"] ELSE c
        BY <2>1
      <3> QED
        BY <2>2, <2>6, <2>8, <3>1
    <2>11. \A r \in Req : write[r] \in [pc: {"idle", "failed", "assigned", "recorded",
                                             "committed", "returned", "orphaned"},
                                        node: Node, version: Nat]
      BY <1>0 DEF WriteOK
    <2>12. \A r \in Req : [write[r] EXCEPT !.pc = "orphaned"] \in
                             [pc: {"idle", "failed", "assigned", "recorded",
                                   "committed", "returned", "orphaned"},
                              node: Node, version: Nat]
      BY <2>11
    <2>13. WriteOK'
      BY <2>1, <2>11, <2>12 DEF WriteOK
    <2>e. PICK e : /\ e.node = b.node /\ e.mode = b.mode /\ e.pc = "config"
                   /\ \A i : AtNode(i)' = (AtNode(i) \ {b}) \cup
                                           (IF i = b.node THEN {e} ELSE {})
      BY <2>1, CallAdvances
    <2>14. ASSUME NEW p \in Node \ overlapped
           PROVE  /\ \A c, d \in AtNode(p)' : c = d
                  /\ \A c \in AtNode(p)' : c.pc = "swap" <=> server'[p].strategy # c.mode
                  /\ \/ server'[p].strategy \in {"none", server'[p].config.mode}
                     \/ \E c \in AtNode(p)' : c.pc = "config"
      <3>1. /\ \A c, d \in AtNode(p) : c = d
            /\ \A c \in AtNode(p) : c.pc = "swap" <=> server[p].strategy # c.mode
            /\ \/ server[p].strategy \in {"none", server[p].config.mode}
               \/ \E c \in AtNode(p) : c.pc = "config"
        BY DEF OneMode
      <3>2. CASE p # n
        <4>1. AtNode(p)' = AtNode(p) /\ server'[p] = server[p]
          BY <2>1, <2>8, <2>e, <3>2 DEF AtNode
        <4> QED
          BY <3>1, <4>1
      <3>3. CASE p = n
        <4>1. b \in AtNode(p)
          BY <2>1, <3>3 DEF AtNode
        <4>2. AtNode(p)' = {e}
          BY <2>1, <2>e, <3>1, <3>3, <4>1
        <4> QED
          BY <2>8, <2>e, <3>3, <4>2 DEF m
      <3> QED
        BY <3>2, <3>3
    <2>15. OneMode'
      BY <2>1, <2>14 DEF OneMode
    <2> QED
      BY <2>1, <2>2, <2>3, <2>4, <2>5, <2>7, <2>8, <2>9, <2>10, <2>13, <2>15
  <1>2. CASE Restart(n)
    <2>1. /\ server' = [server EXCEPT ![n] = FreshServer]
          /\ store' = [store EXCEPT ![n] = [k \in Key |-> FreshKey]]
          /\ queue' = [queue EXCEPT ![n] = <<>>]
          /\ rpc' = {IF c.from = n THEN [c EXCEPT !.held = FALSE] ELSE c :
                        c \in {d \in rpc : d.to # n}}
          /\ write' = [r \in Req |-> IF r \in Handling /\ write[r].node = n
                                     THEN [write[r] EXCEPT !.pc = "failed"] ELSE write[r]]
          /\ calls' = calls \ AtNode(n)
          /\ orderly' = (orderly /\ ~Written)
          /\ UNCHANGED <<lost, acked, loop, overlapped>>
      BY <1>2 DEF Restart
    <2>2. LoopOK' /\ PendingOK' /\ GhostsOK'
      BY <2>1 DEF LoopOK, PendingOK, GhostsOK
    <2>3. \A i \in Node : AtNode(i)' = IF i = n THEN {} ELSE AtNode(i)
      BY <2>1 DEF AtNode
    <2>4. StoreOK' /\ (\A k \in Key : store'[n][k] = FreshKey)
          /\ \A p \in Node : p # n => store'[p] = store[p]
      BY <1>0, <2>1, FreshKeyType DEF StoreOK
    <2>5. QueueOK' /\ \A p \in Node : Tasks(p)' \subseteq Tasks(p)
      <3>1. \A p \in Node : queue'[p] = IF p = n THEN <<>> ELSE queue[p]
        BY <1>0, <2>1 DEF QueueOK
      <3>2. QueueOK'
        BY <1>0, <2>1 DEF QueueOK
      <3> QED
        BY <3>1, <3>2 DEF Tasks
    <2>6. ASSUME NEW c \in rpc
          PROVE  LET d == [c EXCEPT !.held = FALSE]
                 IN  d \in AnyCall /\ d.msg = c.msg /\ d.to = c.to /\ d.pc = c.pc
      BY <1>0 DEF CallsOK, AnyCall
    <2>7. CallsOK'
      BY <1>0, <2>1, <2>6 DEF CallsOK
    <2>8. /\ server'[n] = FreshServer
          /\ \A p \in Node : p # n => server'[p] = server[p]
      BY <1>0, <2>1 DEF ServerOK
    <2>9. ServerOK'
      BY <1>0, <2>1 DEF ServerOK, ServerState, FreshServer, Configs
    <2>10. ASSUME NEW d \in rpc'
           PROVE  \E c \in rpc : /\ d.msg = c.msg /\ d.to = c.to
                                 /\ d.pc = c.pc /\ d.to # n
      <3>1. PICK c \in {b \in rpc : b.to # n} :
               d = IF c.from = n THEN [c EXCEPT !.held = FALSE] ELSE c
        BY <2>1
      <3> QED
        BY <2>6, <3>1
    <2>11. \A r \in Req : write[r] \in [pc: {"idle", "failed", "assigned", "recorded",
                                             "committed", "returned", "orphaned"},
                                        node: Node, version: Nat]
      BY <1>0 DEF WriteOK
    <2>12. \A r \in Req : [write[r] EXCEPT !.pc = "failed"] \in
                             [pc: {"idle", "failed", "assigned", "recorded",
                                   "committed", "returned", "orphaned"},
                              node: Node, version: Nat]
      BY <2>11
    <2>13. WriteOK'
      BY <2>1, <2>11, <2>12 DEF WriteOK
    <2>14. server'[n].strategy = "none"
      BY <2>8 DEF FreshServer
    <2>15. OneMode'
      BY <2>1, <2>3, <2>8, <2>14 DEF OneMode
    <2> QED
      BY <2>1, <2>2, <2>4, <2>5, <2>7, <2>8, <2>9, <2>10, <2>13, <2>15
  <1> QED
    BY <1>1, <1>2 DEF EndStep, Swapping

(* So does the end of a strategy: its data and handlers go together. *)
LEMMA EndAlways ==
  ASSUME Always, NEW n \in Node, EndStep(n)
  PROVE  Always'
  <1>1. Parts /\ OneMode /\ Taken /\ EmptyBefore /\ Unwritten
    BY TypeParts DEF Always
  <1>3. Parts' /\ OneMode'
    BY <1>1, EndEffect DEF Parts, AckedOK
  <1>4. Typed'
    <2>1. Typed' <=> Parts'
      BY TypeParts, PTL
    <2> QED
      BY <1>3, <2>1
  <1>5. \A r \in Req :
           /\ write'[r].version = write[r].version
           /\ write'[r].node = write[r].node
           /\ write'[r].pc = "idle" => write[r].pc = "idle"
           /\ write'[r].pc \notin {"idle", "failed"} => write[r].pc \notin {"idle", "failed"}
    <2> SUFFICES ASSUME NEW r \in Req
                 PROVE  /\ write'[r].version = write[r].version
                        /\ write'[r].node = write[r].node
                        /\ write'[r].pc = "idle" => write[r].pc = "idle"
                        /\ write'[r].pc \notin {"idle", "failed"}
                              => write[r].pc \notin {"idle", "failed"}
      OBVIOUS
    <2>1. write[r] \in [pc: {"idle", "failed", "assigned", "recorded",
                             "committed", "returned", "orphaned"},
                        node: Node, version: Nat]
      BY <1>1 DEF Parts, WriteOK
    <2>2. \/ write'[r] = write[r]
          \/ r \in Handling /\ write'[r] = [write[r] EXCEPT !.pc = "failed"]
          \/ r \in Handling /\ write'[r] = [write[r] EXCEPT !.pc = "orphaned"]
      BY <1>1, EndEffect
    <2> QED
      BY <2>1, <2>2 DEF Handling
  <1>6. Taken'
    <2>1. \A p \in Node : \A t \in Tasks(p)' : t \in Tasks(p)
      BY <1>1, EndEffect
    <2>2. \A d \in rpc' : \E c \in rpc : d.msg = c.msg
      BY <1>1, EndEffect
    <2>3. acked' = acked
      BY <1>1, EndEffect
    <2>4. \A p \in Node : \A t \in Tasks(p) : t.msg.req \in Req
      BY <1>1, Reads
    <2>5. \A c \in rpc : c.msg.req \in Req
      BY <1>1, Reads
    <2>6. \A a \in acked : a.req \in Req
      BY <1>1, Reads
    <2>7. \A p \in Node : \A t \in Tasks(p)' : Issued(t.msg)'
      BY <1>1, <1>5, <2>1, <2>4 DEF Taken, Issued
    <2>8. \A d \in rpc' : Issued(d.msg)'
      BY <1>1, <1>5, <2>2, <2>5 DEF Taken, Issued
    <2>9. \A a \in acked' : Issued(a)'
      BY <1>1, <1>5, <2>3, <2>6 DEF Taken, Issued
    <2>10. \A r \in Req : /\ write'[r].pc = "idle" => write'[r].version = 0
                          /\ write'[r].pc \notin {"idle", "failed"} => write'[r].version # 0
      BY <1>1, <1>5 DEF Taken
    <2> QED
      BY <2>7, <2>8, <2>9, <2>10 DEF Taken
  <1>7. EmptyBefore'
    <2> SUFFICES ASSUME NEW m \in Node, server'[m].strategy = "none"
                 PROVE  /\ \A k \in Key : store'[m][k] = FreshKey
                        /\ \A r \in Handling' : write'[r].node # m
                        /\ \A d \in rpc' : d.to = m => d.pc = "sent"
      BY DEF EmptyBefore
    <2>1. m # n => server[m].strategy = "none"
      BY <1>1, EndEffect
    <2>2. \A k \in Key : store'[m][k] = FreshKey
      <3>1. CASE m = n
        BY <1>1, <3>1, EndEffect
      <3>2. CASE m # n
        <4>1. store'[m] = store[m]
          BY <1>1, <3>2, EndEffect
        <4> QED
          BY <1>1, <2>1, <3>2, <4>1 DEF EmptyBefore
      <3> QED
        BY <3>1, <3>2
    <2>3. ASSUME NEW r \in Handling', write'[r].node = m PROVE FALSE
      <3>1. r \in Req /\ write'[r].pc \in {"assigned", "recorded", "committed", "orphaned"}
        BY DEF Handling
      <3>2. \/ write'[r] = write[r] /\ ~(r \in Handling /\ write[r].node = n)
            \/ /\ r \in Handling /\ write[r].node = n
               /\ \/ write'[r] = [write[r] EXCEPT !.pc = "failed"]
                  \/ server'[n].strategy # "none"
        BY <1>1, <3>1, EndEffect
      <3>3. write'[r].node = write[r].node
        BY <1>5, <3>1
      <3>4. write[r] \in [pc: {"idle", "failed", "assigned", "recorded",
                               "committed", "returned", "orphaned"},
                          node: Node, version: Nat]
        BY <1>1, <3>1 DEF Parts, WriteOK
      <3>5. CASE m = n
        BY <2>3, <3>1, <3>2, <3>3, <3>4, <3>5 DEF Handling
      <3>6. CASE m # n
        <4>1. write'[r] = write[r] /\ r \in Handling
          BY <2>3, <3>1, <3>2, <3>3, <3>6 DEF Handling
        <4> QED
          BY <1>1, <2>1, <2>3, <3>6, <4>1 DEF EmptyBefore
      <3> QED
        BY <3>5, <3>6
    <2>4. ASSUME NEW d \in rpc', d.to = m PROVE d.pc = "sent"
      <3>1. PICK c \in rpc : /\ d.msg = c.msg /\ d.to = c.to
                             /\ \/ d.pc = c.pc /\ (d.to = n => d.pc = "sent")
                                \/ d.to = n /\ server'[n].strategy # "none"
        BY <1>1, EndEffect
      <3> QED
        BY <1>1, <2>1, <2>4, <3>1 DEF EmptyBefore
    <2> QED
      BY <2>2, <2>3, <2>4
  <1>8. Unwritten'
    <2> SUFFICES ASSUME ~Written', NEW m \in Node, NEW k \in Key
                 PROVE  store'[m][k] = FreshKey
      BY DEF Unwritten
    <2>2. ~Written
      BY <1>5 DEF Written
    <2>3. CASE m = n
      BY <1>1, <2>3, EndEffect
    <2>4. CASE m # n
      <3>1. store'[m] = store[m]
        BY <1>1, <2>4, EndEffect
      <3> QED
        BY <1>1, <2>2, <3>1 DEF Unwritten
    <2> QED
      BY <2>3, <2>4
  <1> QED
    BY <1>3, <1>4, <1>6, <1>7, <1>8 DEF Always

(* No step of a handler makes a deployment orderly again. *)
LEMMA OrderlyMoves ==
  ASSUME orderly \in BOOLEAN, HandlerStep
  PROVE  orderly' \in BOOLEAN /\ (orderly' => orderly)
  <1>1. UNCHANGED orderly => orderly' \in BOOLEAN /\ (orderly' => orderly)
    OBVIOUS
  <1>2. ASSUME NEW r \in Req, NEW n \in Node, WriteAssign(r, n)
        PROVE  orderly' \in BOOLEAN /\ (orderly' => orderly)
    BY <1>2 DEF WriteAssign
  <1>3. ASSUME NEW r \in Req, NEW n \in Node, WriteRejected(r, n) PROVE UNCHANGED orderly
    BY <1>3 DEF WriteRejected, ghosts
  <1>4. ASSUME NEW r \in Handling, WriteStep(r) PROVE UNCHANGED orderly
    BY <1>4 DEF WriteStep, WriteRecord, WriteForward, WriteCommit, WriteAck, OrphanedWrite,
                ghosts
  <1>5. ASSUME NEW c \in rpc, PropagateStep(c) \/ CallFails(c) PROVE UNCHANGED orderly
    BY <1>5 DEF PropagateStep, PropagateRecord, PropagateForward, PropagateCommit,
                PropagateAck, OrphanedCall, CallFails, others, ghosts
  <1>6. ASSUME NEW n \in Node, Send(n) PROVE UNCHANGED orderly
    BY <1>6 DEF Send, others, ghosts
  <1>7. UNCHANGED vars => UNCHANGED orderly
    BY DEF vars, ghosts
  <1> QED
    BY <1>1, <1>2, <1>3, <1>4, <1>5, <1>6, <1>7 DEF HandlerStep

(* So do the handlers and workers, in a server with a strategy. *)
LEMMA HandlerAlways ==
  ASSUME Always, HandlerStep
  PROVE  Always'
  <1>1. Parts /\ OneMode /\ Taken /\ EmptyBefore /\ Unwritten
    BY TypeParts DEF Always
  <1>u. UNCHANGED <<server, loop, calls, overlapped>>
    BY DEF HandlerStep
  <1>2. Parts'
    <2>1. ServerOK' /\ LoopOK' /\ PendingOK'
      BY <1>1, <1>u DEF Parts, ServerOK, LoopOK, PendingOK
    <2>2. orderly' \in BOOLEAN
      BY <1>1, OrderlyMoves DEF Parts, GhostsOK
    <2>3. lost' \in BOOLEAN /\ AckedOK'
      BY <1>1, AcksMove
    <2>4. GhostsOK'
      BY <1>1, <1>u, <2>2, <2>3 DEF Parts, GhostsOK
    <2>5. StoreOK' /\ QueueOK' /\ CallsOK' /\ WriteOK'
      BY <1>1, StoreMoves, QueuesMove, CallsMove, WritesMove
    <2> QED
      BY <2>1, <2>3, <2>4, <2>5 DEF Parts
  <1>3. Typed'
    <2>1. Typed' <=> Parts'
      BY TypeParts, PTL
    <2> QED
      BY <1>2, <2>1
  <1>4. OneMode'
    BY <1>1, <1>u DEF OneMode, AtNode
  <1>w. \A r \in Req : write[r] \in [pc: {"idle", "failed", "assigned", "recorded",
                                         "committed", "returned", "orphaned"},
                                    node: Node, version: Nat]
    BY <1>1 DEF Parts, WriteOK
  <1>5. \A r \in Req :
           /\ write[r].version # 0 => write'[r].version # 0
           /\ write'[r].pc = "idle" => write'[r].version = 0
           /\ write'[r].pc \notin {"idle", "failed"} => write'[r].version # 0
    <2> SUFFICES ASSUME NEW r \in Req
                 PROVE  /\ write[r].version # 0 => write'[r].version # 0
                        /\ write'[r].pc = "idle" => write'[r].version = 0
                        /\ write'[r].pc \notin {"idle", "failed"} => write'[r].version # 0
      OBVIOUS
    <2>1. /\ write[r].pc = "idle" => write[r].version = 0
          /\ write[r].pc \notin {"idle", "failed"} => write[r].version # 0
      BY <1>1 DEF Taken
    <2>2. \/ write'[r] = write[r]
          \/ write[r].pc = "idle" /\ write'[r] = [write[r] EXCEPT !.pc = "failed"]
          \/ write'[r].version # 0 /\ write'[r].pc = "assigned"
          \/ /\ r \in Handling
             /\ \E pc \in {"recorded", "committed", "returned"} :
                   write'[r] = [write[r] EXCEPT !.pc = pc]
      BY <1>1, WritesMove
    <2>3. r \in Handling => write[r].pc \notin {"idle", "failed"}
      BY DEF Handling
    <2> QED
      BY <1>w, <2>1, <2>2, <2>3
  <1>6. ASSUME NEW m, Handled(m) PROVE m.req \in Req /\ Issued(m)
    <2>1. ASSUME NEW r \in Handling, m = Message(r) PROVE m.req \in Req /\ Issued(m)
      <3>1. r \in Req /\ Message(r).req = r /\ write[r].version # 0
        BY <1>1, Reads DEF Handling, Taken
      <3> QED
        BY <2>1, <3>1 DEF Issued
    <2>2. ASSUME NEW c \in rpc, m = c.msg PROVE m.req \in Req /\ Issued(m)
      BY <1>1, <2>2, Reads DEF Taken, Issued
    <2> QED
      BY <1>6, <2>1, <2>2 DEF Handled
  <1>7. Taken'
    <2>1. ASSUME NEW n \in Node, NEW t \in Tasks(n)' PROVE Issued(t.msg)'
      <3>1. t.msg.req \in Req /\ Issued(t.msg)
        BY <1>1, <1>6, QueuesMove, Reads DEF Taken
      <3> QED
        BY <1>5, <3>1 DEF Issued
    <2>2. ASSUME NEW d \in rpc' PROVE Issued(d.msg)'
      <3>1. d.msg.req \in Req /\ Issued(d.msg)
        <4>1. \/ \E n \in Node : \E t \in Tasks(n) : d.msg = t.msg
              \/ \E c \in rpc : d.msg = c.msg
          BY <1>1, CallsMove
        <4>2. ASSUME NEW n \in Node, NEW t \in Tasks(n), d.msg = t.msg
              PROVE  d.msg.req \in Req /\ Issued(d.msg)
          BY <1>1, <4>2, Reads DEF Taken
        <4>3. ASSUME NEW c \in rpc, d.msg = c.msg
              PROVE  d.msg.req \in Req /\ Issued(d.msg)
          BY <1>1, <4>3, Reads DEF Taken
        <4> QED
          BY <4>1, <4>2, <4>3
      <3> QED
        BY <1>5, <3>1 DEF Issued
    <2>3. ASSUME NEW a \in acked' PROVE Issued(a)'
      <3>1. a.req \in Req /\ Issued(a)
        <4>1. a \in acked \/ \E m : Handled(m) /\ a = AckRequest(m)
          BY <1>1, AcksMove
        <4>2. ASSUME NEW m, Handled(m), a = AckRequest(m)
              PROVE  a.req \in Req /\ Issued(a)
          BY <1>6, <4>2 DEF AckRequest, Issued
        <4>3. CASE a \in acked
          BY <1>1, <4>3, Reads DEF Taken
        <4> QED
          BY <4>1, <4>2, <4>3
      <3> QED
        BY <1>5, <3>1 DEF Issued
    <2> QED
      BY <1>5, <2>1, <2>2, <2>3 DEF Taken
  <1>8. EmptyBefore'
    <2> SUFFICES ASSUME NEW n \in Node, server[n].strategy = "none"
                 PROVE  /\ \A k \in Key : store'[n][k] = FreshKey
                        /\ \A r \in Handling' : write'[r].node # n
                        /\ \A d \in rpc' : d.to = n => d.pc = "sent"
      BY <1>u DEF EmptyBefore
    <2>1. /\ \A k \in Key : store[n][k] = FreshKey
          /\ \A r \in Handling : write[r].node # n
          /\ \A c \in rpc : c.to = n => c.pc = "sent"
      BY <1>1 DEF EmptyBefore
    <2>2. ~AcceptsWrite(n)
      BY DEF AcceptsWrite
    <2>3. ASSUME NEW k \in Key PROVE store'[n][k] = FreshKey
      <3>1. CASE UNCHANGED store
        BY <2>1, <3>1
      <3>2. ASSUME NEW r \in Req, NEW p \in Node, WriteAssign(r, p)
            PROVE  store'[n][k] = store[n][k]
        <4>1. p # n
          BY <2>2, <3>2 DEF WriteAssign
        <4> QED
          BY <1>1, <3>2, <4>1, AssignRaises
      <3>3. ASSUME NEW r \in Handling, Raised(write[r].node, KeyOf[r], r, write[r].version)
            PROVE  store'[n][k] = store[n][k]
        BY <2>1, <3>3 DEF Raised
      <3>4. ASSUME NEW c \in rpc, PropagateRecord(c) \/ PropagateCommit(c),
                   Raised(c.to, KeyOf[c.msg.req], c.msg.req, c.msg.version)
            PROVE  store'[n][k] = store[n][k]
        <4>1. c.to # n
          BY <2>1, <3>4 DEF PropagateRecord, PropagateCommit
        <4> QED
          BY <3>4, <4>1 DEF Raised
      <3> QED
        BY <1>1, <2>1, <3>1, <3>2, <3>3, <3>4, StoreMoves
    <2>4. ASSUME NEW r \in Handling', write'[r].node = n PROVE FALSE
      <3>1. r \in Req /\ write'[r].pc \in {"assigned", "recorded", "committed", "orphaned"}
        BY DEF Handling
      <3>2. \/ write'[r] = write[r]
            \/ write[r].pc = "idle" /\ write'[r] = [write[r] EXCEPT !.pc = "failed"]
            \/ \E p \in Node : WriteAssign(r, p) /\ write'[r].node = p
            \/ /\ r \in Handling
               /\ \E pc \in {"recorded", "committed", "returned"} :
                     write'[r] = [write[r] EXCEPT !.pc = pc]
        BY <1>1, <3>1, WritesMove
      <3>3. CASE write'[r] = write[r]
        <4>1. r \in Handling
          BY <3>1, <3>3 DEF Handling
        <4> QED
          BY <2>1, <2>4, <3>3, <4>1
      <3>4. CASE write'[r] = [write[r] EXCEPT !.pc = "failed"]
        BY <1>w, <3>1, <3>4
      <3>5. ASSUME NEW p \in Node, WriteAssign(r, p), write'[r].node = p PROVE FALSE
        BY <2>2, <2>4, <3>5 DEF WriteAssign
      <3>6. ASSUME r \in Handling, NEW pc, write'[r] = [write[r] EXCEPT !.pc = pc] PROVE FALSE
        <4>1. write'[r].node = write[r].node
          BY <1>w, <3>1, <3>6
        <4> QED
          BY <2>1, <2>4, <3>6, <4>1
      <3> QED
        BY <3>2, <3>3, <3>4, <3>5, <3>6
    <2>5. ASSUME NEW d \in rpc', d.to = n PROVE d.pc = "sent"
      BY <1>1, <2>1, <2>5, CallsMove
    <2> QED
      BY <2>3, <2>4, <2>5
  <1>9. Unwritten'
    <2> SUFFICES ASSUME ~Written', NEW n \in Node, NEW k \in Key
                 PROVE  store'[n][k] = FreshKey
      BY DEF Unwritten
    <2>1. ~Written /\ \A r \in Req : write[r].version = 0 /\ write'[r].version = 0
      BY <1>5, <1>1 DEF Written
    <2>2. \A m : ~Handled(m)
      BY <1>6, <2>1 DEF Issued
    <2>3. Handling = {} /\ rpc = {}
      BY <2>2 DEF Handled
    <2>4. ASSUME NEW r \in Req, NEW p \in Node, WriteAssign(r, p) PROVE FALSE
      <3>0. KeyOf[r] \in Key /\ store[p][KeyOf[r]] \in KeyState
        BY <1>1, Nodes, Reads
      <3>w. write'[r] = [pc |-> "assigned", node |-> p,
                         version |-> store[p][KeyOf[r]].next + 1]
        BY <1>1, <2>4, AssignRaises
      <3>1. /\ store[p][KeyOf[r]] \in KeyState
            /\ write'[r].version = store[p][KeyOf[r]].next + 1
        BY <3>0, <3>w
      <3>2. store[p][KeyOf[r]].next \in Nat
        BY <3>1, KeyStateFields
      <3> QED
        BY <2>1, <3>1, <3>2
    <2>5. UNCHANGED store
      BY <1>1, <2>3, <2>4, StoreMoves
    <2> QED
      BY <1>1, <2>1, <2>5 DEF Unwritten
  <1> QED
    BY <1>3, <1>4, <1>7, <1>8, <1>9 DEF Always

(* So does every step. *)
(* So does every step. *)
LEMMA NextAlways ==
  ASSUME Always, [Next]_vars
  PROVE  Always'
  <1>1. \A c \in calls : c.node \in Node
    BY TypeParts DEF Always, Parts, PendingOK
  <1> QED
    BY <1>1, Steps, LoopAlways, EndAlways, HandlerAlways

(* Type correctness, that a server's strategy is of the mode of its        *)
(* NodeConfig but while Configure is at it, unless two Configure calls     *)
(* have run there at once, and that a server has no data before its first  *)
(* Configure or before the first write.                                    *)
THEOREM AlwaysTheorem == Spec => []Always
  <1>1. Always /\ [Next]_vars => Always'
    BY NextAlways
  <1> QED
    BY <1>1, InitAlways, PTL DEF Spec

(* Type correctness of a deployment that is configured and restarted at    *)
(* any time.                                                               *)
THEOREM TypeCorrect == Spec => []TypeOK
  <1>1. Always => TypeOK
    BY DEF Always, Typed
  <1> QED
    BY <1>1, AlwaysTheorem, PTL

(* A server at which no two Configure calls have run at once forgets what  *)
(* it has seen only when its strategy changes, to that of another mode or, *)
(* by a restart, to none: a mode that differs from that of the NodeConfig  *)
(* differs from that of the strategy, until the call goes on to replace    *)
(* the NodeConfig as well.                                                 *)
LEMMA StepOutlives ==
  ASSUME Always, [Next]_vars
  PROVE  \A n \in Node \ overlapped', k \in Key : store'[n][k].seen < store[n][k].seen =>
            server'[n].strategy # server[n].strategy
  <1>1. Parts /\ OneMode /\ EmptyBefore
    BY TypeParts DEF Always
  <1> SUFFICES ASSUME NEW n \in Node, n \notin overlapped', NEW k \in Key,
                      store'[n][k].seen < store[n][k].seen
               PROVE  server'[n].strategy # server[n].strategy
    OBVIOUS
  <1>2. store[n][k] \in KeyState /\ store[n][k].seen \in Nat
    BY <1>1, Reads, KeyStateFields
  <1>3. CASE LoopStep
    <2>1. UNCHANGED store
      BY <1>3 DEF LoopStep
    <2> QED
      BY <1>2, <2>1
  <1>4. CASE HandlerStep
    <2>1. store'[n][k].seen >= store[n][k].seen /\ StoreOK'
      BY <1>1, <1>4, StoreMoves DEF StoreGrows, AtOrAbove
    <2>2. store'[n][k].seen \in Nat
      BY <2>1, KeyStateFields DEF StoreOK
    <2> QED
      BY <1>2, <2>1, <2>2
  <1>5. ASSUME NEW m \in Node, EndStep(m) PROVE server'[n].strategy # server[n].strategy
    <2>1. m = n
      <3>1. m # n => store'[m] = store'[m] /\ store'[n] = store[n]
        BY <1>1, <1>5, EndEffect
      <3> QED
        BY <1>2, <3>1
    <2>2. store'[n][k] = FreshKey /\ overlapped' = overlapped
      BY <1>1, <1>5, <2>1, EndEffect
    <2>3. server[n].strategy # "none"
      BY <1>1, <1>2, <2>2 DEF EmptyBefore
    <2>4. server \in [Node -> ServerState]
      BY <1>1 DEF Parts, ServerOK
    <2>5. CASE Restart(m)
      BY <2>1, <2>3, <2>4, <2>5 DEF Restart, FreshServer
    <2>6. ASSUME NEW c \in calls, Swapping(c, m)
          PROVE  server'[n].strategy # server[n].strategy
      <3>1. /\ c.node = n /\ c.pc = "swap"
            /\ server' = [server EXCEPT ![n].strategy = c.mode, ![n].successor = NoStub]
        BY <2>1, <2>6 DEF Swapping, ConfigureStrategy
      <3>2. server'[n].strategy = c.mode
        BY <2>4, <3>1 DEF ServerState
      <3>3. c \in AtNode(n)
        BY <3>1 DEF AtNode
      <3>4. server[n].strategy # c.mode
        BY <1>1, <2>2, <3>1, <3>3 DEF OneMode
      <3> QED
        BY <3>2, <3>4
    <2> QED
      BY <1>5, <2>5, <2>6 DEF EndStep
  <1>6. \A c \in calls : c.node \in Node
    BY <1>1 DEF Parts, PendingOK
  <1> QED
    BY <1>3, <1>4, <1>5, <1>6, Steps

(* The same, of every step of the deployment, whoever configures and       *)
(* writes when and whichever Configure calls fail.                         *)
THEOREM StoresTheorem == Spec => StoresOutliveConfigure
  <1>1. Always /\ [Next]_vars =>
           [\A n \in Node \ overlapped', k \in Key : store'[n][k].seen < store[n][k].seen =>
               server'[n].strategy # server[n].strategy]_vars
    BY StepOutlives
  <1> QED
    BY <1>1, AlwaysTheorem, PTL DEF Spec, StoresOutliveConfigure

-----------------------------------------------------------------------------
(* What a server answers stays the same *)

(* What CommittedIsStable says of one key *)
Stable(s, t) ==
    \/ t = FreshKey
    \/ t.committed > s.committed
    \/ t.committed = s.committed /\ t.committedValue = s.committedValue

LEMMA CommitIsStable ==
  ASSUME NEW s \in KeyState, NEW x \in Req, NEW v \in Nat
  PROVE  Stable(s, MarkVersionCommittedIfNewer(s, x, v))
  <1> DEFINE t == MarkVersionCommittedIfNewer(s, x, v)
             u == [s EXCEPT !.next = Later(@, v), !.seen = Later(@, v),
                            !.seenValue = IF v > s.seen THEN x ELSE @,
                            !.committed = Later(@, v),
                            !.committedValue = IF v > s.committed THEN x ELSE @]
  <1>1. s.committed \in Nat
    BY KeyStateFields
  <1>2. t.committed = u.committed /\ t.committedValue = u.committedValue
    BY DEF MarkVersionCommittedIfNewer, Prune, KeyState
  <1>3. /\ u.committed = Later(s.committed, v)
        /\ u.committedValue = IF v > s.committed THEN x ELSE s.committedValue
    BY DEF KeyState
  <1> HIDE DEF t, u
  <1>4. t.committed > s.committed \/
        (t.committed = s.committed /\ t.committedValue = s.committedValue)
    BY <1>1, <1>2, <1>3 DEF Later
  <1> QED
    BY <1>4 DEF Stable, t

(* One critical section of a handler, at key k of server n *)
LEMMA UpdateIsStable ==
  ASSUME Parts, NEW n \in Node, NEW r \in Req, NEW v \in Nat,
         \/ UpdateKey(n, KeyOf[r], RecordLocalWriteIfNewer(store[n][KeyOf[r]], r, v))
         \/ UpdateKey(n, KeyOf[r], MarkVersionCommittedIfNewer(store[n][KeyOf[r]], r, v))
  PROVE  \A m \in Node, j \in Key : Stable(store[m][j], store'[m][j])
  <1> DEFINE k == KeyOf[r]
             t == RecordLocalWriteIfNewer(store[n][k], r, v)
             u == MarkVersionCommittedIfNewer(store[n][k], r, v)
  <1>1. k \in Key /\ store[n][k] \in KeyState /\ StoreOK
    BY Nodes, Reads DEF Parts
  <1>2. /\ t \in KeyState /\ Stable(store[n][k], t)
    BY <1>1, RecordIfNewerEffect DEF Stable
  <1>3. /\ u \in KeyState /\ Stable(store[n][k], u)
    BY <1>1, MarkCommittedEffect, CommitIsStable
  <1>4. UpdateKey(n, k, t) \/ UpdateKey(n, k, u)
    OBVIOUS
  <1> HIDE DEF t, u
  <1>5. /\ Stable(store[n][k], store'[n][k])
        /\ \A m \in Node, j \in Key : m # n \/ j # k => store'[m][j] = store[m][j]
    BY <1>1, <1>2, <1>3, <1>4, UpdateKeyEffect
  <1> QED
    BY <1>5 DEF Stable

(* A version that a server has committed keeps its value there: a commit   *)
(* of the same version, from a head that gives it out again or from the    *)
(* strategy of another mode, does not replace it.                          *)
LEMMA StepIsStable ==
  ASSUME Always, [Next]_vars
  PROVE  \A n \in Node, k \in Key : Stable(store[n][k], store'[n][k])
  <1>1. Parts /\ OneMode
    BY TypeParts DEF Always
  <1>2. CASE UNCHANGED store
    BY <1>2 DEF Stable
  <1>3. CASE LoopStep
    BY <1>2, <1>3 DEF LoopStep
  <1>4. CASE HandlerStep
    <2>1. ASSUME NEW r \in Req, NEW n \in Node, WriteAssign(r, n)
          PROVE  \A m \in Node, j \in Key : Stable(store[m][j], store'[m][j])
      BY <1>1, <2>1, AssignRaises DEF Stable
    <2>2. ASSUME NEW r \in Handling, WriteRecord(r) \/ WriteCommit(r)
          PROVE  \A m \in Node, j \in Key : Stable(store[m][j], store'[m][j])
      <3>1. r \in Req /\ write[r].node \in Node /\ write[r].version \in Nat
        BY <1>1, Reads DEF Handling
      <3> QED
        BY <1>1, <2>2, <3>1, UpdateIsStable DEF WriteRecord, WriteCommit
    <2>3. ASSUME NEW c \in rpc, PropagateRecord(c) \/ PropagateCommit(c)
          PROVE  \A m \in Node, j \in Key : Stable(store[m][j], store'[m][j])
      <3>1. c.msg.req \in Req /\ c.to \in Node /\ c.msg.version \in Nat
        BY <1>1, Reads
      <3> QED
        BY <1>1, <2>3, <3>1, UpdateIsStable DEF PropagateRecord, PropagateCommit
    <2> QED
      BY <1>1, <1>2, <1>4, <2>1, <2>2, <2>3, StoreMoves
  <1>5. ASSUME NEW m \in Node, EndStep(m)
        PROVE  \A n \in Node, k \in Key : Stable(store[n][k], store'[n][k])
    BY <1>1, <1>5, EndEffect DEF Stable
  <1>6. \A c \in calls : c.node \in Node
    BY <1>1 DEF Parts, PendingOK
  <1> QED
    BY <1>3, <1>4, <1>5, <1>6, Steps

(* A server that has answered a read of a version with a value never       *)
(* answers that version with another value before it loses everything,     *)
(* whoever configures, writes or restarts when.                            *)
THEOREM StableTheorem == Spec => CommittedIsStable
  <1>1. Always /\ [Next]_vars =>
           [\A n \in Node, k \in Key :
               LET s == store[n][k]
                   t == store'[n][k]
               IN  \/ t = FreshKey
                   \/ t.committed > s.committed
                   \/ t.committed = s.committed /\ t.committedValue = s.committedValue]_vars
    BY StepIsStable DEF Stable
  <1> QED
    BY <1>1, AlwaysTheorem, PTL DEF Spec, CommittedIsStable

-----------------------------------------------------------------------------
(* All servers in one mode *)

(* Before the first write there is nothing that could be wrong. *)
LEMMA UnwrittenFacts ==
  ASSUME Parts, Taken, Unwritten, ~Written, NEW M \in Modes
  PROVE  Facts(M)
  <1>1. \A r \in Req : write[r].version = 0
    BY DEF Written
  <1>2. \A n \in Node, k \in Key : store[n][k] = FreshKey
    BY DEF Unwritten
  <1>3. FreshKey.seen = 0 /\ FreshKey.committed = 0
    BY DEF FreshKey
  <1>4. HoldersRecorded(M)
    <2>1. \A n \in Node : Tasks(n) = {}
      BY <1>1, Reads DEF Taken, Issued
    <2>2. rpc = {}
      BY <1>1, Reads DEF Taken, Issued
    <2>3. \A r \in Req : write[r].pc \in {"idle", "failed"}
      BY <1>1 DEF Taken
    <2> QED
      BY <1>1, <2>1, <2>2, <2>3 DEF HoldersRecorded, WriteRecorded
  <1>5. Ordered(M) /\ CommittedIsSeen
    BY <1>2, <1>3 DEF Ordered, CommittedIsSeen
  <1>6. AckedCommitted(M)
    BY <1>1, Reads DEF Taken, Issued, AckedCommitted
  <1> QED
    BY <1>4, <1>5, <1>6 DEF Facts

(* While all servers and calls are of one mode, Configure puts in place    *)
(* what is there.                                                          *)
LEMMA LoopNeedless ==
  ASSUME Parts, NEW M \in Modes, Settled(M), LoopStep
  PROVE  UNCHANGED server
  <1>0. /\ server \in [Node -> ServerState]
        /\ \A c \in calls : c.node \in Node /\ c.mode = M
    BY DEF Parts, ServerOK, PendingOK, Settled
  <1>1. \A n \in Node : /\ server[n].strategy = M
                        /\ server[n].config = BuildNodeConfig(M, n)
                        /\ server[n].successor = server[n].config.successor
    BY ServersAgree DEF Settled
  <1>2. ASSUME NEW c \in calls, ConfigureNode(c) PROVE UNCHANGED server
    <2> DEFINE p == c.node
               g == BuildNodeConfig(c.mode, p)
    <2>1. server' = [server EXCEPT ![p].config = g]
      BY <1>2 DEF ConfigureNode
    <2>2. g = server[p].config
      BY <1>0, <1>1
    <2> HIDE DEF g
    <2>3. [server[p] EXCEPT !.config = g] = server[p]
      BY <1>0, <2>2 DEF ServerState
    <2>p. p \in Node
      BY <1>0
    <2> HIDE DEF p
    <2>4. server' = [server EXCEPT ![p] = [server[p] EXCEPT !.config = g]]
      BY <2>1
    <2> QED
      BY <1>0, <2>3, <2>4, <2>p
  <1>3. ASSUME NEW c \in calls, ConfigureStubs(c) PROVE UNCHANGED server
    <2> DEFINE p == c.node
               g == server[p].config.successor
    <2>1. server' = [server EXCEPT ![p].successor = g]
      BY <1>3 DEF ConfigureStubs
    <2>2. g = server[p].successor
      BY <1>0, <1>1
    <2> HIDE DEF g
    <2>3. [server[p] EXCEPT !.successor = g] = server[p]
      BY <1>0, <2>2 DEF ServerState
    <2>p. p \in Node
      BY <1>0
    <2> HIDE DEF p
    <2>4. server' = [server EXCEPT ![p] = [server[p] EXCEPT !.successor = g]]
      BY <2>1
    <2> QED
      BY <1>0, <2>3, <2>4, <2>p
  <1> QED
    BY <1>2, <1>3 DEF LoopStep, StartConfigure, NextConfigure, ConfigureFails, ConfigureBegins

(* In an orderly deployment that is written to, only more of the same mode *)
(* is configured.                                                          *)
LEMMA LoopSettled ==
  ASSUME Parts, NEW M \in Modes, Settled(M), Written, LoopStep, orderly'
  PROVE  Settled(M)'
  <1>0. /\ LoopOK /\ PendingOK /\ UNCHANGED server
        /\ \A c \in calls : c.mode = M /\ c.pc # "swap"
        /\ \A p \in Pass : loop[p].called \in 1 .. N - 1 => loop[p].mode = M
        /\ \A n \in Node : server[n] = ConfiguredServer(M, n)
    BY LoopNeedless DEF Parts, Settled
  <1>1. \A n \in Node : server[n].strategy = M /\ server[n].config.mode = M
    BY <1>0, ServersAgree
  <1>2. ASSUME NEW p \in Pass, NEW m \in Modes, NEW n \in Node, CallConfigure(p, m, n), m = M
        PROVE  Settled(M)'
    <2>1. /\ loop'[p].mode = M /\ \A q \in Pass : q # p => loop'[q] = loop[q]
          /\ \A c \in calls' : c \in calls \/ (c.mode = M /\ c.pc = "sent")
      BY <1>0, <1>2, CallStarts
    <2> QED
      BY <1>0, <2>1 DEF Settled
  <1>3. ASSUME NEW p \in Pass, NEW m \in Modes, StartConfigure(p, m) PROVE Settled(M)'
    <2>1. 0 \in Node
      BY Nodes
    <2>2. CallConfigure(p, m, 0) /\ \A n \in Node : server[n].strategy = m
      BY <1>3 DEF StartConfigure
    <2>3. m = M
      BY <1>1, <2>1, <2>2
    <2> QED
      BY <1>2, <2>1, <2>2, <2>3
  <1>4. ASSUME NEW p \in Pass, NextConfigure(p) PROVE Settled(M)'
    <2>1. /\ loop[p].called \in 1 .. N - 1
          /\ CallConfigure(p, loop[p].mode, loop[p].called)
      BY <1>4 DEF NextConfigure
    <2>2. loop[p].mode = M /\ loop[p].called \in Node
      BY <1>0, <2>1, Nodes
    <2> QED
      BY <1>2, <2>1, <2>2
  <1>5. ASSUME NEW c \in calls, loop' = loop,
               \/ calls' = calls \ {c}
               \/ \E pc \in {"config", "stubs"} : ConfigureAt(c, pc)
        PROVE  Settled(M)'
    <2>1. \A d \in calls' : d.mode = M /\ d.pc # "swap"
      <3>1. CASE calls' = calls \ {c}
        BY <1>0, <3>1
      <3>2. ASSUME NEW pc \in {"config", "stubs"}, ConfigureAt(c, pc)
            PROVE  \A d \in calls' : d.mode = M /\ d.pc # "swap"
        <4>1. PICK e : /\ e.mode = c.mode /\ e.pc = pc
                       /\ calls' = (calls \ {c}) \cup {e}
          BY <1>0, <3>2, CallAdvances
        <4> QED
          BY <1>0, <4>1
      <3> QED
        BY <1>5, <3>1, <3>2
    <2> QED
      BY <1>0, <1>5, <2>1 DEF Settled
  <1>6. ASSUME NEW c \in calls, ConfigureBegins(c) PROVE Settled(M)'
    <2>1. M # "none" /\ c.node \in Node /\ c.mode = M
      BY <1>0, ConfigureAssumption DEF PendingOK
    <2>2. ~Swaps(c)
      BY <1>1, <2>1 DEF Swaps
    <2>3. ConfigureAt(c, "config") /\ loop' = loop
      BY <1>6, <2>2 DEF ConfigureBegins
    <2> QED
      BY <1>5, <2>3
  <1>7. ASSUME NEW c \in calls, ConfigureFails(c) PROVE Settled(M)'
    BY <1>5, <1>7 DEF ConfigureFails
  <1>8. ASSUME NEW c \in calls, ConfigureNode(c) \/ ConfigureStubs(c) PROVE Settled(M)'
    BY <1>5, <1>8 DEF ConfigureNode, ConfigureStubs
  <1> QED
    BY <1>3, <1>4, <1>6, <1>7, <1>8 DEF LoopStep

(* So the loops keep it, since they change neither data nor messages. *)
LEMMA LoopRuns ==
  ASSUME Parts, NEW M \in Modes, Runs(M), Written, LoopStep, orderly'
  PROVE  Runs(M)'
  <1>1. UNCHANGED <<store, queue, rpc, lost, acked, write>>
    BY DEF LoopStep
  <1>2. HoldersRecorded(M)'
    BY <1>1 DEF Runs, Facts, HoldersRecorded, TaskRecorded, CallRecorded,
         WriteRecorded, Tasks, Genuine, FromHead, Recorded, Committed, Message
  <1>3. Ordered(M)' /\ CommittedIsSeen' /\ AckedCommitted(M)'
    BY <1>1 DEF Runs, Facts, Ordered, CommittedIsSeen, AckedCommitted, Genuine, Committed
  <1> QED
    BY <1>2, <1>3, LoopSettled DEF Runs, Facts

-----------------------------------------------------------------------------
(* A step of the handlers while all servers are in mode M and clients      *)
(* write to the heads of their keys                                        *)

RunStep(M) ==
    /\ Parts /\ Parts' /\ Taken /\ Runs(M) /\ HandlerStep
    /\ \A r \in Req, n \in Node : WriteAssign(r, n) => n = KeyHead(M, KeyOf[r])

VersionsStay ==
    \A r \in Req : write[r].version # 0 => write'[r].version = write[r].version

IsMessage(m) == m.req \in Req /\ m.version \in Nat

(* What there is to read in such a step *)
LEMMA RunFacts ==
  ASSUME NEW M \in Modes, RunStep(M)
  PROVE  /\ Parts /\ Parts' /\ HandlerStep /\ HoldersRecorded(M)
         /\ \A n \in Node : server[n] = ConfiguredServer(M, n)
         /\ \A n \in Node, k \in Key :
               /\ store[n][k].next \in Nat /\ store'[n][k].next \in Nat
               /\ store[n][k].seen \in Nat /\ store'[n][k].seen \in Nat
               /\ store[n][k].committed \in Nat /\ store'[n][k].committed \in Nat
         /\ \A r \in Req : /\ IsMessage(Message(r)) /\ Message(r) \in PropagateRequest
                           /\ KeyOf[r] \in Key
                           /\ write[r].version \in Nat
         /\ \A n \in Node : \A t \in Tasks(n) : IsMessage(t.msg)
         /\ \A c \in rpc : /\ IsMessage(c.msg) /\ c.msg \in PropagateRequest
                           /\ c.from \in Node /\ c.to \in Node
         /\ \A r \in Handling : /\ r \in Req /\ WriteRecorded(M, r)
                                /\ write[r].version # 0
                                /\ write[r].node = KeyHead(M, KeyOf[r])
                                /\ Genuine(Message(r)) /\ FromHead(M, Message(r))
                                /\ ~OrphanedWrite(r)
         /\ \A c \in rpc : CallRecorded(M, c) /\ ~OrphanedCall(c)
  <1>1. /\ Parts /\ Parts' /\ Taken /\ HandlerStep /\ HoldersRecorded(M)
        /\ \A n \in Node : server[n] = ConfiguredServer(M, n)
    BY DEF RunStep, Runs, Settled, Facts
  <1>3. \A n \in Node, k \in Key : store[n][k] \in KeyState /\ store'[n][k] \in KeyState
    BY <1>1 DEF Parts, StoreOK
  <1>4. \A n \in Node, k \in Key :
           /\ store[n][k].next \in Nat /\ store'[n][k].next \in Nat
           /\ store[n][k].seen \in Nat /\ store'[n][k].seen \in Nat
           /\ store[n][k].committed \in Nat /\ store'[n][k].committed \in Nat
    BY <1>3, KeyStateFields
  <1>5. \A r \in Req : /\ IsMessage(Message(r)) /\ Message(r) \in PropagateRequest
                       /\ KeyOf[r] \in Key /\ write[r].version \in Nat
    BY <1>1, Reads, Nodes DEF IsMessage
  <1>6. /\ \A n \in Node : \A t \in Tasks(n) : IsMessage(t.msg)
        /\ \A c \in rpc : /\ IsMessage(c.msg) /\ c.msg \in PropagateRequest
                          /\ c.from \in Node /\ c.to \in Node
    BY <1>1, Reads DEF IsMessage
  <1>7. ASSUME NEW r \in Handling
        PROVE  /\ r \in Req /\ WriteRecorded(M, r)
               /\ write[r].version # 0
               /\ write[r].node = KeyHead(M, KeyOf[r])
               /\ Genuine(Message(r)) /\ FromHead(M, Message(r))
               /\ ~OrphanedWrite(r)
    <2>1. r \in Req /\ write[r].pc \in {"assigned", "recorded", "committed", "orphaned"}
      BY DEF Handling
    <2>3. WriteRecorded(M, r)
      BY <1>1, <2>1 DEF HoldersRecorded
    <2>4. write[r].version # 0 /\ write[r].node = KeyHead(M, KeyOf[r])
      BY <2>1, <2>3 DEF WriteRecorded
    <2>5. /\ Message(r).req = r /\ Message(r).version = write[r].version
          /\ Message(r).origin = write[r].node
      BY <1>1, <2>1, Reads
    <2> QED
      BY <2>1, <2>3, <2>4, <2>5 DEF WriteRecorded, Genuine, FromHead, OrphanedWrite
  <1>8. \A c \in rpc : CallRecorded(M, c) /\ ~OrphanedCall(c)
    BY <1>1 DEF HoldersRecorded, CallRecorded, OrphanedCall
  <1> QED
    BY <1>1, <1>4, <1>5, <1>6, <1>7, <1>8

(* What is recorded stays recorded. *)
LEMMA StepGrows ==
  ASSUME NEW M \in Modes, RunStep(M)
  PROVE  StoreGrows /\ VersionsStay
  <1>1. Parts /\ HandlerStep /\ Taken
    BY DEF RunStep
  <1>2. StoreGrows
    BY <1>1, StoreMoves
  <1>3. ASSUME NEW r \in Req, write[r].version # 0
        PROVE  write'[r].version = write[r].version
    <2>1. write[r].pc # "idle"
      BY <1>1, <1>3 DEF Taken
    <2>2. \A n \in Node : ~WriteAssign(r, n)
      BY <2>1 DEF WriteAssign
    <2>3. \/ write'[r] = write[r]
          \/ \E pc \in {"recorded", "committed", "returned"} :
                write'[r] = [write[r] EXCEPT !.pc = pc]
      BY <1>1, <2>1, <2>2, WritesMove
    <2>4. write[r] \in [pc: {"idle", "failed", "assigned", "recorded",
                             "committed", "returned", "orphaned"},
                        node: Node, version: Nat]
      BY <1>1 DEF Parts, WriteOK
    <2> QED
      BY <2>3, <2>4
  <1> QED
    BY <1>2, <1>3 DEF VersionsStay

(* What is recorded or committed stays so. *)
LEMMA RecordedStays ==
  ASSUME NEW M \in Modes, RunStep(M)
  PROVE  \A m : IsMessage(m) =>
            /\ Genuine(m) => Genuine(m)'
            /\ Committed(M, m) => Committed(M, m)'
            /\ \A n \in Node : Recorded(n, m) => Recorded(n, m)'
  <1>0. StoreGrows /\ VersionsStay
    BY StepGrows
  <1>1. \A n \in Node, k \in Key :
           /\ store[n][k].seen \in Nat /\ store'[n][k].seen \in Nat
           /\ store[n][k].committed \in Nat /\ store'[n][k].committed \in Nat
           /\ store'[n][k].seen >= store[n][k].seen
           /\ store'[n][k].committed >= store[n][k].committed
    BY <1>0, RunFacts DEF StoreGrows, AtOrAbove
  <1>2. \A m : IsMessage(m) => KeyOf[m.req] \in Key
    BY Nodes DEF IsMessage
  <1>3. \A m : IsMessage(m) => (Genuine(m) => Genuine(m)')
    BY <1>0, RunFacts DEF IsMessage, Genuine, VersionsStay
  <1>4. \A m : IsMessage(m) => (Committed(M, m) => Committed(M, m)')
    <2>1. \A m : IsMessage(m) => KeyTail(M, KeyOf[m.req]) \in Node
      BY <1>2, Way
    <2>2. \A m, n : IsMessage(m) /\ n \in Node =>
             (store[n][KeyOf[m.req]].committed >= m.version
                => store'[n][KeyOf[m.req]].committed >= m.version)
      BY <1>1, <1>2 DEF IsMessage
    <2> QED
      BY <2>1, <2>2 DEF Committed
  <1>5. \A m : IsMessage(m) => \A n \in Node : Recorded(n, m) => Recorded(n, m)'
    BY <1>1, <1>2 DEF IsMessage, Recorded
  <1> QED
    BY <1>3, <1>4, <1>5

(* A task enqueued or taken keeps every queue recorded. *)
LEMMA TasksRecorded ==
  ASSUME NEW M \in Modes, RunStep(M)
  PROVE  \A n \in Node : \A t \in Tasks(n)' : TaskRecorded(M, n, t)'
  <1> DEFINE Goal == \A n \in Node : \A t \in Tasks(n)' : TaskRecorded(M, n, t)'
  <1>0. Parts /\ HandlerStep /\ HoldersRecorded(M)
    BY RunFacts
  <1>2. ASSUME NEW n \in Node, NEW t, IsMessage(t.msg), TaskRecorded(M, n, t)
        PROVE  TaskRecorded(M, n, t)'
    <2>1. Genuine(t.msg)' /\ Recorded(n, t.msg)'
      BY <1>2, RecordedStays DEF TaskRecorded
    <2> QED
      BY <1>2, <2>1 DEF TaskRecorded, FromHead
  <1>3. \A n \in Node : \A t \in Tasks(n) : TaskRecorded(M, n, t)'
    BY <1>0, <1>2, RunFacts DEF HoldersRecorded
  <1>4. UNCHANGED queue => Goal
    BY <1>3 DEF Tasks
  <1>5. ASSUME NEW r \in Handling, WriteForward(r) PROVE Goal
    <2> DEFINE h == KeyHead(M, KeyOf[r])
               new == [successor |-> Hop(M, h), msg |-> Message(r)]
    <2>0. /\ r \in Req /\ WriteRecorded(M, r) /\ write[r].node = h
          /\ Genuine(Message(r)) /\ FromHead(M, Message(r)) /\ KeyOf[r] \in Key
          /\ IsMessage(Message(r)) /\ Message(r) \in PropagateRequest
      BY RunFacts
    <2>1. /\ h \in Node /\ server[h] = ConfiguredServer(M, h)
      BY <2>0, Way, RunFacts
    <2>2. /\ ~CommitsAlone(h) /\ write[r].pc = "recorded"
          /\ Enqueue(h, server[h].successor, Message(r))
      BY <1>5, <2>0 DEF WriteForward
    <2>3. h # KeyTail(M, KeyOf[r]) /\ server[h].successor = Hop(M, h)
      BY <2>0, <2>1, <2>2, ServersAgree
    <2>4. Hop(M, h) \in Node
      BY <2>0, <2>1, <2>3, Way
    <2>5. \A n \in Node : \A t \in Tasks(n)' : t \in Tasks(n) \/ (n = h /\ t = new)
      BY <1>0, <2>0, <2>1, <2>2, <2>3, <2>4, EnqueueAny
    <2>6. Message(r).req = r
      BY <1>0, <2>0, Reads
    <2>7. Recorded(h, Message(r))
      BY <2>0, <2>2 DEF WriteRecorded
    <2>8. TaskRecorded(M, h, new) /\ IsMessage(new.msg)
      BY <2>0, <2>3, <2>6, <2>7 DEF TaskRecorded
    <2> HIDE DEF new, h
    <2>9. ASSUME NEW n \in Node, NEW t, n = h, t = new PROVE TaskRecorded(M, n, t)'
      BY <1>2, <2>8, <2>9
    <2>10. \A n \in Node : \A t \in Tasks(n)' : TaskRecorded(M, n, t)'
      BY <1>3, <2>5, <2>9
    <2> QED
      BY <2>10
  <1>6. ASSUME NEW c \in rpc, PropagateForward(c) PROVE Goal
    <2> DEFINE h == c.to
               new == [successor |-> Hop(M, h), msg |-> c.msg]
    <2>0. /\ CallRecorded(M, c) /\ IsMessage(c.msg) /\ c.msg \in PropagateRequest
          /\ h \in Node /\ server[h] = ConfiguredServer(M, h)
      BY RunFacts
    <2>1. /\ ~IsRequestTail(h, c.msg) /\ c.pc = "recorded"
          /\ Enqueue(h, server[h].successor, c.msg)
      BY <1>6 DEF PropagateForward
    <2>2. /\ Genuine(c.msg) /\ FromHead(M, c.msg) /\ Recorded(h, c.msg)
          /\ c.msg.req \in Req /\ KeyOf[c.msg.req] \in Key
      BY <2>0, <2>1, Nodes DEF CallRecorded, IsMessage
    <2>3. h # KeyTail(M, KeyOf[c.msg.req]) /\ server[h].successor = Hop(M, h)
      BY <2>0, <2>1, <2>2, ServersAgree
    <2>4. Hop(M, h) \in Node
      BY <2>0, <2>2, <2>3, Way
    <2>5. \A n \in Node : \A t \in Tasks(n)' : t \in Tasks(n) \/ (n = h /\ t = new)
      BY <1>0, <2>0, <2>1, <2>3, <2>4, EnqueueAny
    <2>8. TaskRecorded(M, h, new) /\ IsMessage(new.msg)
      BY <2>0, <2>2, <2>3 DEF TaskRecorded
    <2> HIDE DEF new, h
    <2>9. TaskRecorded(M, h, new)'
      BY <1>2, <2>0, <2>8
    <2>10. \A n \in Node : \A t \in Tasks(n)' : TaskRecorded(M, n, t)'
      BY <1>3, <2>5, <2>9
    <2> QED
      BY <2>10
  <1>7. ASSUME NEW n \in Node, Send(n) PROVE Goal
    <2>1. \A p \in Node : Tasks(p)' \subseteq Tasks(p)
      BY <1>0, <1>7, SendAny
    <2> QED
      BY <1>3, <2>1
  <1>8. ASSUME NEW r \in Req, NEW n \in Node, WriteRejected(r, n) \/ WriteAssign(r, n)
        PROVE  UNCHANGED queue
    BY <1>8 DEF WriteRejected, WriteAssign
  <1>9. ASSUME NEW r \in Handling, WriteStep(r), ~WriteForward(r) PROVE UNCHANGED queue
    BY <1>9, RunFacts DEF WriteStep, WriteRecord, WriteCommit, WriteAck
  <1>10. ASSUME NEW c \in rpc, PropagateStep(c) \/ CallFails(c), ~PropagateForward(c)
         PROVE  UNCHANGED queue
    BY <1>0, <1>10, RunFacts, CallFailsAny
    DEF PropagateStep, PropagateRecord, PropagateCommit, PropagateAck
  <1>11. UNCHANGED vars => UNCHANGED queue
    BY DEF vars
  <1> HIDE DEF Goal
  <1>12. Goal
    BY <1>0, <1>4, <1>5, <1>6, <1>7, <1>8, <1>9, <1>10, <1>11 DEF HandlerStep
  <1> QED
    BY <1>12 DEF Goal

(* A call started, advanced or failed keeps every call recorded. *)
LEMMA CallsRecorded ==
  ASSUME NEW M \in Modes, RunStep(M)
  PROVE  \A d \in rpc' : CallRecorded(M, d)'
  <1> DEFINE Goal == \A d \in rpc' : CallRecorded(M, d)'
  <1>0. Parts /\ HandlerStep /\ HoldersRecorded(M)
    BY RunFacts
  <1>n. /\ \A c \in rpc : CallRecorded(M, c) /\ IsMessage(c.msg) /\ c.msg.req \in Req
                          /\ c.from \in Node /\ c.to \in Node /\ KeyOf[c.msg.req] \in Key
                          /\ server[c.to] = ConfiguredServer(M, c.to)
    BY RunFacts, Nodes DEF IsMessage
  <1>2. ASSUME NEW c \in rpc, NEW d, d.from = c.from, d.to = c.to, d.msg = c.msg,
               d.pc \in {c.pc, "recorded", "committed"},
               d.pc # c.pc => Recorded(d.to, d.msg)',
               d.pc = "committed" /\ c.pc # "committed" => Committed(M, d.msg)'
        PROVE  CallRecorded(M, d)'
    <2>1. /\ CallRecorded(M, c) /\ IsMessage(d.msg) /\ d.from \in Node /\ d.to \in Node
      BY <1>2, <1>n
    <2>2. /\ Genuine(d.msg)' /\ Recorded(d.from, d.msg)'
          /\ d.pc = c.pc /\ d.pc # "sent" => Recorded(d.to, d.msg)'
          /\ c.pc = "committed" => Committed(M, d.msg)'
      BY <1>2, <2>1, RecordedStays
      DEF CallRecorded, Genuine, Recorded, Committed
    <2>3. /\ d.pc # "orphaned" /\ d.from # KeyTail(M, KeyOf[d.msg.req])
          /\ d.to = Hop(M, d.from) /\ FromHead(M, d.msg)
      BY <1>2, <2>1 DEF CallRecorded
    <2>4. /\ d.pc # "sent" => Recorded(d.to, d.msg)'
          /\ d.pc = "committed" => Committed(M, d.msg)'
      BY <1>2, <2>2
    <2> QED
      BY <2>2, <2>3, <2>4 DEF CallRecorded, FromHead
  <1>3. \A c \in rpc : CallRecorded(M, c)'
    BY <1>2
  <1>4. rpc' \subseteq rpc => Goal
    BY <1>3
  <1>5. ASSUME NEW n \in Node, Send(n) PROVE Goal
    <2>1. PICK t \in Tasks(n) :
             rpc' = rpc \cup {[from |-> n, to |-> t.successor, msg |-> t.msg,
                               pc |-> "sent", held |-> TRUE]}
      BY <1>0, <1>5, SendAny
    <2>2. TaskRecorded(M, n, t) /\ IsMessage(t.msg)
      BY <1>0, RunFacts DEF HoldersRecorded
    <2>3. Genuine(t.msg)' /\ Recorded(n, t.msg)'
      BY <2>2, RecordedStays DEF TaskRecorded
    <2>4. \A d : d = [from |-> n, to |-> t.successor, msg |-> t.msg,
                      pc |-> "sent", held |-> TRUE] => CallRecorded(M, d)'
      BY <2>2, <2>3 DEF TaskRecorded, CallRecorded, Genuine, Recorded, FromHead
    <2> QED
      BY <1>3, <2>1, <2>4
  <1>6. ASSUME NEW c \in rpc, PropagateRecord(c) PROVE Goal
    <2>1. Raised(c.to, KeyOf[c.msg.req], c.msg.req, c.msg.version)
      BY <1>0, <1>6, StepsRaise
    <2>2. \A d \in rpc' : \/ d \in rpc
                          \/ /\ d.from = c.from /\ d.to = c.to
                             /\ d.msg = c.msg /\ d.pc = "recorded"
      BY <1>0, <1>6, AdvanceAny DEF PropagateRecord
    <2>3. ASSUME NEW d, d.from = c.from, d.to = c.to, d.msg = c.msg, d.pc = "recorded"
          PROVE  CallRecorded(M, d)'
      <3>1. Recorded(d.to, d.msg)'
        BY <2>1, <2>3 DEF Recorded, Raised
      <3> QED
        BY <1>2, <2>3, <3>1
    <2> QED
      BY <1>3, <2>2, <2>3
  <1>7. ASSUME NEW c \in rpc, PropagateCommit(c) PROVE Goal
    <2>1. /\ c.to = KeyTail(M, KeyOf[c.msg.req]) /\ c.pc = "recorded"
      BY <1>7, <1>n, ServersAgree DEF PropagateCommit, CallRecorded
    <2>2. store'[c.to][KeyOf[c.msg.req]].committed >= c.msg.version
      <3>1. StoreOK
        BY <1>0 DEF Parts
      <3> QED
        BY <1>7, <1>n, <3>1, CommitRaises DEF PropagateCommit, IsMessage
    <2>r. Raised(c.to, KeyOf[c.msg.req], c.msg.req, c.msg.version)
      BY <1>0, <1>7, StepsRaise
    <2>3. \A d \in rpc' : \/ d \in rpc
                          \/ /\ d.from = c.from /\ d.to = c.to
                             /\ d.msg = c.msg /\ d.pc = "committed"
      BY <1>0, <1>7, AdvanceAny DEF PropagateCommit
    <2>4. ASSUME NEW d, d.from = c.from, d.to = c.to, d.msg = c.msg, d.pc = "committed"
          PROVE  CallRecorded(M, d)'
      <3>1. Recorded(d.to, d.msg)' /\ Committed(M, d.msg)'
        BY <2>1, <2>2, <2>r, <2>4 DEF Recorded, Raised, Committed
      <3> QED
        BY <1>2, <2>4, <3>1
    <2> QED
      BY <1>3, <2>3, <2>4
  <1>8. ASSUME NEW c \in rpc, PropagateForward(c) \/ PropagateAck(c)
        PROVE  rpc' \subseteq rpc
    BY <1>8 DEF PropagateForward, PropagateAck, Return
  <1>9. ASSUME NEW c \in rpc, CallFails(c) PROVE Goal
    <2>1. \A d \in rpc' : \E b \in rpc :
             d.from = b.from /\ d.to = b.to /\ d.msg = b.msg /\ d.pc = b.pc
      BY <1>0, <1>9, CallFailsAny
    <2> QED
      BY <1>2, <2>1
  <1>10. ASSUME NEW r \in Req, NEW n \in Node, WriteRejected(r, n) \/ WriteAssign(r, n)
         PROVE  rpc' \subseteq rpc
    BY <1>10 DEF WriteRejected, WriteAssign
  <1>11. ASSUME NEW r \in Handling, WriteStep(r) PROVE rpc' \subseteq rpc
    BY <1>11 DEF WriteStep, WriteRecord, WriteForward, WriteCommit, WriteAck, OrphanedWrite
  <1>12. UNCHANGED vars => rpc' \subseteq rpc
    BY DEF vars
  <1>13. \A c \in rpc : PropagateStep(c) => \/ PropagateRecord(c) \/ PropagateCommit(c)
                                            \/ PropagateForward(c) \/ PropagateAck(c)
    BY RunFacts DEF PropagateStep
  <1> HIDE DEF Goal
  <1>14. Goal
    BY <1>0, <1>4, <1>5, <1>6, <1>7, <1>8, <1>9, <1>10, <1>11, <1>12, <1>13 DEF HandlerStep
  <1> QED
    BY <1>14 DEF Goal

(* A step of handle_write does what its program counter then says. *)
LEMMA WritesRecorded ==
  ASSUME NEW M \in Modes, RunStep(M)
  PROVE  \A r \in Req : WriteRecorded(M, r)'
  <1> SUFFICES ASSUME NEW r \in Req PROVE WriteRecorded(M, r)'
    OBVIOUS
  <1> DEFINE k == KeyOf[r]
             h == KeyHead(M, k)
  <1>0. /\ Parts /\ Parts' /\ HandlerStep /\ WriteRecorded(M, r) /\ k \in Key
        /\ h \in Node /\ KeyTail(M, k) \in Node
        /\ write[r].version \in Nat
    BY RunFacts, Way DEF HoldersRecorded
  <1>w. write[r] \in [pc: {"idle", "failed", "assigned", "recorded",
                           "committed", "returned", "orphaned"},
                      node: Node, version: Nat]
    BY <1>0 DEF Parts, WriteOK
  <1>g. /\ store[h][k].seen >= write[r].version => store'[h][k].seen >= write[r].version
        /\ store[KeyTail(M, k)][k].committed >= write[r].version
              => store'[KeyTail(M, k)][k].committed >= write[r].version
    <2>1. \A n \in Node : /\ store[n][k].seen \in Nat /\ store'[n][k].seen \in Nat
                          /\ store[n][k].committed \in Nat /\ store'[n][k].committed \in Nat
                          /\ store'[n][k].seen >= store[n][k].seen
                          /\ store'[n][k].committed >= store[n][k].committed
      BY <1>0, RunFacts, StepGrows DEF StoreGrows, AtOrAbove
    <2> QED
      BY <1>0, <2>1
  <1>m. /\ Message(r).req = r /\ Message(r).version = write[r].version
        /\ Message(r)'.req = r /\ Message(r)'.version = write'[r].version
    BY DEF Message
  <1>1. /\ write[r].version = 0 <=> write[r].pc \in {"idle", "failed"}
        /\ write[r].version # 0 => write[r].node = h
        /\ write[r].pc # "orphaned"
        /\ write[r].pc \in {"recorded", "committed", "returned"}
              => store[h][k].seen >= write[r].version
        /\ write[r].pc = "committed"
              => h = KeyTail(M, k) /\ store[KeyTail(M, k)][k].committed >= write[r].version
    BY <1>0, <1>m DEF WriteRecorded, Recorded, Committed
  <1> SUFFICES /\ write'[r].version = 0 <=> write'[r].pc \in {"idle", "failed"}
               /\ write'[r].version # 0 => write'[r].node = h
               /\ write'[r].pc # "orphaned"
               /\ write'[r].pc \in {"recorded", "committed", "returned"}
                     => store'[h][k].seen >= write'[r].version
               /\ write'[r].pc = "committed"
                     => /\ h = KeyTail(M, k)
                        /\ store'[KeyTail(M, k)][k].committed >= write'[r].version
    BY <1>m DEF WriteRecorded, Recorded, Committed
  <1>2. CASE write'[r] = write[r]
    BY <1>1, <1>g, <1>2
  <1>3. CASE write[r].pc = "idle" /\ write'[r] = [write[r] EXCEPT !.pc = "failed"]
    BY <1>1, <1>w, <1>3
  <1>4. ASSUME NEW n \in Node, WriteAssign(r, n), write'[r].version # 0,
               write'[r].node = n, write'[r].pc = "assigned"
        PROVE  n = h
    BY <1>4 DEF RunStep
  <1>5. CASE /\ r \in Handling /\ WriteStep(r)
             /\ \E pc \in {"recorded", "committed", "returned"} :
                   write'[r] = [write[r] EXCEPT !.pc = pc]
    <2>1. /\ write'[r].version = write[r].version /\ write'[r].node = write[r].node
          /\ write'[r].pc \in {"recorded", "committed", "returned"}
          /\ write[r].version # 0
      BY <1>w, <1>5, RunFacts
    <2>2. CASE WriteRecord(r)
      <3>1. write'[r].pc = "recorded"
        BY <1>0, <2>2 DEF WriteRecord, WriteAt, Parts, WriteOK
      <3>2. Raised(h, k, r, write[r].version)
        BY <1>0, <1>1, <2>1, <2>2, StepsRaise
      <3> QED
        BY <1>1, <2>1, <3>1, <3>2 DEF Raised
    <2>3. CASE WriteCommit(r)
      <3>1. write'[r].pc = "committed" /\ write[r].pc = "recorded" /\ CommitsAlone(h)
        BY <1>0, <1>1, <2>1, <2>3 DEF WriteCommit, WriteAt, Parts, WriteOK
      <3>2. h = KeyTail(M, k)
        BY <1>0, <3>1, RunFacts, ServersAgree
      <3>3. store'[h][k].committed >= write[r].version
        <4>1. StoreOK
          BY <1>0 DEF Parts
        <4> QED
          BY <1>0, <1>1, <2>1, <2>3, <4>1, CommitRaises DEF WriteCommit
      <3> QED
        BY <1>1, <1>g, <2>1, <3>1, <3>2, <3>3
    <2>4. CASE WriteForward(r) \/ WriteAck(r)
      <3>1. write'[r].pc = "returned" /\ write[r].pc \in {"recorded", "committed"}
        BY <1>0, <2>4 DEF WriteForward, WriteAck, WriteAt, Parts, WriteOK
      <3> QED
        BY <1>1, <1>g, <2>1, <3>1
    <2> QED
      BY <1>5, <2>2, <2>3, <2>4, RunFacts DEF WriteStep
  <1> QED
    BY <1>0, <1>2, <1>3, <1>4, <1>5, WritesMove

-----------------------------------------------------------------------------
(* The other conjuncts *)

(* A step that records or commits does so at the head, for the version of  *)
(* the request, or at a node whose predecessor has recorded the version.   *)
LEMMA StoreSteps ==
  ASSUME NEW M \in Modes, RunStep(M)
  PROVE  \/ UNCHANGED store
         \/ \E r \in Req, n \in Node : WriteAssign(r, n) /\ n = KeyHead(M, KeyOf[r])
         \/ \E n \in Node, r \in Req :
               /\ write[r].version # 0
               /\ Raised(n, KeyOf[r], r, write[r].version)
               /\ \/ n = KeyHead(M, KeyOf[r])
                  \/ \E p \in Node : /\ p # KeyTail(M, KeyOf[r]) /\ n = Hop(M, p)
                                     /\ store[p][KeyOf[r]].seen >= write[r].version
  <1>1. ASSUME NEW r \in Handling, Raised(write[r].node, KeyOf[r], r, write[r].version)
        PROVE  /\ r \in Req /\ write[r].version # 0
               /\ write[r].node = KeyHead(M, KeyOf[r]) /\ write[r].node \in Node
    BY RunFacts, Way
  <1>2. ASSUME NEW c \in rpc, Raised(c.to, KeyOf[c.msg.req], c.msg.req, c.msg.version)
        PROVE  /\ c.to \in Node /\ c.msg.req \in Req /\ c.from \in Node
               /\ c.from # KeyTail(M, KeyOf[c.msg.req]) /\ c.to = Hop(M, c.from)
               /\ write[c.msg.req].version # 0
               /\ Raised(c.to, KeyOf[c.msg.req], c.msg.req, write[c.msg.req].version)
               /\ store[c.from][KeyOf[c.msg.req]].seen >= write[c.msg.req].version
    <2>1. CallRecorded(M, c) /\ IsMessage(c.msg) /\ c.to \in Node /\ c.from \in Node
      BY RunFacts
    <2>2. c.msg.version = write[c.msg.req].version
      BY <2>1 DEF CallRecorded, Genuine
    <2> QED
      BY <1>2, <2>1, <2>2 DEF CallRecorded, Genuine, Recorded, IsMessage
  <1>3. \A r \in Req, n \in Node : WriteAssign(r, n) => n = KeyHead(M, KeyOf[r])
    BY DEF RunStep
  <1>4. Parts /\ HandlerStep
    BY RunFacts
  <1>5. \/ UNCHANGED store
        \/ \E r \in Req, n \in Node : WriteAssign(r, n)
        \/ \E r \in Handling : Raised(write[r].node, KeyOf[r], r, write[r].version)
        \/ \E c \in rpc : Raised(c.to, KeyOf[c.msg.req], c.msg.req, c.msg.version)
    BY <1>4, StoreMoves
  <1>6. ASSUME NEW r \in Handling, Raised(write[r].node, KeyOf[r], r, write[r].version)
        PROVE  \E n \in Node, q \in Req :
                  /\ write[q].version # 0
                  /\ Raised(n, KeyOf[q], q, write[q].version)
                  /\ n = KeyHead(M, KeyOf[q])
    BY <1>1, <1>6
  <1>7. ASSUME NEW c \in rpc, Raised(c.to, KeyOf[c.msg.req], c.msg.req, c.msg.version)
        PROVE  \E n \in Node, q \in Req :
                  /\ write[q].version # 0
                  /\ Raised(n, KeyOf[q], q, write[q].version)
                  /\ \E p \in Node : /\ p # KeyTail(M, KeyOf[q]) /\ n = Hop(M, p)
                                     /\ store[p][KeyOf[q]].seen >= write[q].version
    BY <1>2, <1>7
  <1> QED
    BY <1>3, <1>5, <1>6, <1>7

(* What a write taken at its head does, where it is not about the counter  *)
LEMMA RunAssigns ==
  ASSUME NEW M \in Modes, RunStep(M), NEW r \in Req, NEW n \in Node, WriteAssign(r, n)
  PROVE  /\ write'[r].version = store[n][KeyOf[r]].next + 1
         /\ write'[r].version = store'[n][KeyOf[r]].next
         /\ \A q \in Req : q # r => write'[q].version = write[q].version
         /\ \A m \in Node, k \in Key :
               /\ store'[m][k].seen = store[m][k].seen
               /\ store'[m][k].seenValue = store[m][k].seenValue
               /\ store'[m][k].committed = store[m][k].committed
               /\ store'[m][k].committedValue = store[m][k].committedValue
  <1>1. Parts
    BY DEF RunStep
  <1>2. /\ write'[r] = [pc |-> "assigned", node |-> n,
                        version |-> store[n][KeyOf[r]].next + 1]
        /\ store'[n][KeyOf[r]].next = store[n][KeyOf[r]].next + 1
        /\ \A q \in Req : q # r => write'[q] = write[q]
        /\ \A m \in Node, k \in Key :
               /\ store'[m][k].seen = store[m][k].seen
               /\ store'[m][k].seenValue = store[m][k].seenValue
               /\ store'[m][k].committed = store[m][k].committed
               /\ store'[m][k].committedValue = store[m][k].committedValue
    BY <1>1, AssignRaises
  <1>3. write'[r].version = store[n][KeyOf[r]].next + 1
    BY <1>2
  <1>4. \A q \in Req : q # r => write'[q].version = write[q].version
    BY <1>2
  <1> QED
    BY <1>2, <1>3, <1>4

(* A node that gets ahead has the message from a node before it. *)
LEMMA OrderKept ==
  ASSUME NEW M \in Modes, RunStep(M)
  PROVE  Ordered(M)'
  <1>0. Ordered(M)
    BY DEF RunStep, Runs, Facts
  <1>1. \A n \in Node, k \in Key :
           store[n][k].seen \in Nat /\ store'[n][k].seen \in Nat
    BY RunFacts
  <1>2. CASE UNCHANGED store
    BY <1>0, <1>2 DEF Ordered
  <1>3. ASSUME NEW r \in Req, NEW n \in Node, WriteAssign(r, n) PROVE Ordered(M)'
    BY <1>0, <1>3, RunAssigns DEF Ordered
  <1>4. ASSUME NEW n \in Node, NEW r \in Req,
               Raised(n, KeyOf[r], r, write[r].version),
               \/ n = KeyHead(M, KeyOf[r])
               \/ \E p \in Node : /\ p # KeyTail(M, KeyOf[r]) /\ n = Hop(M, p)
                                  /\ store[p][KeyOf[r]].seen >= write[r].version
        PROVE  Ordered(M)'
    <2> DEFINE v == write[r].version
    <2>0. v \in Nat
      BY RunFacts
    <2> SUFFICES ASSUME NEW k \in Key, NEW i \in Node, NEW j \in Node,
                        Place(M, k, i) < Place(M, k, j)
                 PROVE  store'[i][k].seen >= store'[j][k].seen
      BY DEF Ordered
    <2>1. /\ store[i][k].seen >= store[j][k].seen
          /\ store'[i][k].seen >= store[i][k].seen
      BY <1>0, <1>4 DEF Ordered, Raised, StoreGrows, AtOrAbove
    <2>2. CASE j # n \/ k # KeyOf[r]
      <3>1. store'[j][k] = store[j][k]
        BY <1>4, <2>2 DEF Raised
      <3> QED
        BY <1>1, <2>1, <3>1
    <2>3. CASE j = n /\ k = KeyOf[r]
      <3>1. store'[j][k].seen \in {store[j][k].seen, v}
        BY <1>4, <2>3 DEF Raised
      <3>d. Place(M, k, i) \in Nat /\ Place(M, k, j) \in Nat
        BY Way
      <3>h. n # KeyHead(M, k)
        BY <2>3, <3>d, Way
      <3>2. PICK p \in Node : /\ p # KeyTail(M, k) /\ n = Hop(M, p)
                              /\ store[p][k].seen >= v
        BY <1>4, <2>3, <3>h
      <3>p. Place(M, k, p) \in Nat /\ Place(M, k, j) = Place(M, k, p) + 1
        BY <2>3, <3>2, Way
      <3>q. Place(M, k, i) < Place(M, k, p) \/ Place(M, k, i) = Place(M, k, p)
        BY <3>d, <3>p
      <3>3. store[i][k].seen >= store[p][k].seen
        <4>1. CASE Place(M, k, i) < Place(M, k, p)
          BY <1>0, <3>2, <4>1 DEF Ordered
        <4>2. CASE Place(M, k, i) = Place(M, k, p)
          <5>1. i = p
            BY <3>2, <4>2, Way
          <5> QED
            BY <1>1, <5>1
        <4> QED
          BY <3>q, <4>1, <4>2
      <3>4. /\ store[i][k].seen \in Nat /\ store'[i][k].seen \in Nat
            /\ store[j][k].seen \in Nat /\ store[p][k].seen \in Nat
        BY <1>1, <3>2
      <3> HIDE DEF v
      <3>5. CASE store'[j][k].seen = v
        BY <2>0, <2>1, <3>2, <3>3, <3>4, <3>5
      <3>6. CASE store'[j][k].seen = store[j][k].seen
        BY <2>1, <3>4, <3>6
      <3> QED
        BY <3>1, <3>5, <3>6
    <2> QED
      BY <2>2, <2>3
  <1> QED
    BY <1>2, <1>3, <1>4, StoreSteps

(* What is committed was recorded in the same server before. *)
LEMMA CommittedIsSeenKept ==
  ASSUME NEW M \in Modes, RunStep(M)
  PROVE  CommittedIsSeen'
  <1>0. CommittedIsSeen
    BY DEF RunStep, Runs, Facts
  <1>1. \A n \in Node, k \in Key :
           /\ store[n][k].seen \in Nat /\ store'[n][k].seen \in Nat
           /\ store[n][k].committed \in Nat /\ store'[n][k].committed \in Nat
    BY RunFacts
  <1>2. CASE UNCHANGED store
    BY <1>0, <1>2 DEF CommittedIsSeen
  <1>3. ASSUME NEW r \in Req, NEW n \in Node, WriteAssign(r, n) PROVE CommittedIsSeen'
    BY <1>0, <1>3, RunAssigns DEF CommittedIsSeen
  <1>4. ASSUME NEW n \in Node, NEW r \in Req,
               Raised(n, KeyOf[r], r, write[r].version)
        PROVE  CommittedIsSeen'
    <2> SUFFICES ASSUME NEW m \in Node, NEW k \in Key
                 PROVE  store'[m][k].committed <= store'[m][k].seen
      BY DEF CommittedIsSeen
    <2>1. /\ store[m][k].committed <= store[m][k].seen
          /\ store'[m][k].seen >= store[m][k].seen
          /\ write[r].version \in Nat
      BY <1>0, <1>4, RunFacts DEF CommittedIsSeen, Raised, StoreGrows, AtOrAbove
    <2>2. CASE m # n \/ k # KeyOf[r]
      BY <1>4, <2>1, <2>2 DEF Raised
    <2>3. CASE m = n /\ k = KeyOf[r]
      <3>1. /\ store'[m][k].committed \in {store[m][k].committed, write[r].version}
            /\ store'[m][k].seen >= write[r].version
        BY <1>4, <2>3 DEF Raised
      <3> QED
        BY <1>1, <2>1, <3>1
    <2> QED
      BY <2>2, <2>3
  <1> QED
    BY <1>2, <1>3, <1>4, StoreSteps

(* The tail acknowledges only what it has committed. *)
LEMMA AckedKept ==
  ASSUME NEW M \in Modes, RunStep(M)
  PROVE  AckedCommitted(M)'
  <1> DEFINE Goal == AckedCommitted(M)'
  <1>0. Parts /\ HandlerStep /\ AckedCommitted(M)
    BY RunFacts DEF RunStep, Runs, Facts
  <1>3. ASSUME NEW a, IsMessage(a), Genuine(a), Committed(M, a)
        PROVE  Genuine(a)' /\ Committed(M, a)'
    BY <1>3, RecordedStays
  <1>4. acked' \subseteq acked => Goal
    <2>1. \A a \in acked : IsMessage(a)
      BY <1>0, Reads DEF IsMessage
    <2> QED
      BY <1>0, <1>3, <2>1 DEF AckedCommitted
  <1>5. ASSUME NEW m \in PropagateRequest, IsMessage(m), SendClientAck(m),
               Genuine(m), Committed(M, m)
        PROVE  Goal
    <2>1. acked' \subseteq acked \cup {AckRequest(m)}
      BY <1>0, <1>5, AckAny
    <2>2. \A a : a = AckRequest(m) =>
             IsMessage(a) /\ Genuine(a) /\ Committed(M, a)
      BY <1>5 DEF AckRequest, IsMessage, Genuine, Committed
    <2>3. \A a : a = AckRequest(m) => Genuine(a)' /\ Committed(M, a)'
      BY <1>3, <2>2
    <2>4. \A a \in acked : IsMessage(a)
      BY <1>0, Reads DEF IsMessage
    <2>5. \A a \in acked : Genuine(a)' /\ Committed(M, a)'
      BY <1>0, <1>3, <2>4 DEF AckedCommitted
    <2> QED
      BY <1>0, <2>1, <2>3, <2>5 DEF AckedCommitted
  <1>6. ASSUME NEW r \in Handling, WriteAck(r) PROVE Goal
    <2>1. /\ IsMessage(Message(r)) /\ Message(r) \in PropagateRequest
          /\ Genuine(Message(r)) /\ WriteRecorded(M, r)
      BY RunFacts
    <2>2. SendClientAck(Message(r)) /\ Committed(M, Message(r))
      BY <1>6, <2>1 DEF WriteAck, WriteRecorded
    <2>3. \A m : m = Message(r) => Goal
      <3> SUFFICES ASSUME NEW m, m = Message(r) PROVE Goal
        OBVIOUS
      <3> QED
        BY <1>5, <2>1, <2>2
    <2> QED
      BY <2>3
  <1>7. ASSUME NEW c \in rpc, PropagateAck(c) PROVE Goal
    <2>1. /\ IsMessage(c.msg) /\ c.msg \in PropagateRequest
          /\ SendClientAck(c.msg) /\ Committed(M, c.msg) /\ Genuine(c.msg)
      BY <1>7, RunFacts DEF PropagateAck, CallRecorded
    <2> QED
      BY <1>5, <2>1
  <1>8. ASSUME NEW r \in Req, NEW n \in Node, WriteRejected(r, n) \/ WriteAssign(r, n)
        PROVE  acked' \subseteq acked
    BY <1>8 DEF WriteRejected, WriteAssign
  <1>9. ASSUME NEW r \in Handling, WriteStep(r), ~WriteAck(r) PROVE acked' \subseteq acked
    BY <1>9, RunFacts DEF WriteStep, WriteRecord, WriteCommit, WriteForward
  <1>10. ASSUME NEW c \in rpc, PropagateStep(c) \/ CallFails(c), ~PropagateAck(c)
         PROVE  acked' \subseteq acked
    BY <1>10, RunFacts
    DEF PropagateStep, PropagateRecord, PropagateCommit, PropagateForward, CallFails, others
  <1>11. ASSUME NEW n \in Node, Send(n) PROVE acked' \subseteq acked
    BY <1>11 DEF Send, others
  <1>12. UNCHANGED vars => acked' \subseteq acked
    BY DEF vars
  <1> HIDE DEF Goal
  <1>13. Goal
    BY <1>0, <1>4, <1>6, <1>7, <1>8, <1>9, <1>10, <1>11, <1>12 DEF HandlerStep
  <1> QED
    BY <1>13 DEF Goal

(* A deployment in use goes on like this while handlers run. *)
LEMMA RunsKept ==
  ASSUME NEW M \in Modes, RunStep(M)
  PROVE  Runs(M)'
  <1>1. UNCHANGED <<server, loop, calls>> /\ Settled(M)
    BY DEF RunStep, HandlerStep, Runs
  <1>2. HoldersRecorded(M)'
    BY TasksRecorded, CallsRecorded, WritesRecorded DEF HoldersRecorded
  <1>3. Settled(M)'
    BY <1>1 DEF Settled
  <1>4. Ordered(M)' /\ CommittedIsSeen' /\ AckedCommitted(M)'
    BY OrderKept, CommittedIsSeenKept, AckedKept
  <1> QED
    BY <1>2, <1>3, <1>4 DEF Runs, Facts

-----------------------------------------------------------------------------
(* The theorems *)

(* Only the first write of an orderly deployment finds servers about which *)
(* nothing is said yet, and it finds them all of one mode.                 *)
LEMMA HandlerRuns ==
  ASSUME Always, Always', orderly', HandlerStep, Written',
         Written => \E M \in Modes : Runs(M)
  PROVE  \E M \in Modes : Runs(M)'
  <1>1. Parts /\ Parts' /\ Taken /\ Unwritten
    <2>1. Typed' <=> Parts'
      BY TypeParts, PTL
    <2> QED
      BY <2>1, TypeParts DEF Always
  <1>2. ASSUME NEW r \in Req, NEW n \in Node, WriteAssign(r, n)
        PROVE  \E m \in Modes : Settled(m) /\ n = KeyHead(m, KeyOf[r])
    BY <1>2 DEF WriteAssign
  <1>3. ASSUME NEW M \in Modes, Runs(M) PROVE Runs(M)'
    <2>1. ASSUME NEW r \in Req, NEW n \in Node, WriteAssign(r, n)
          PROVE  n = KeyHead(M, KeyOf[r])
      <3>1. PICK m \in Modes : Settled(m) /\ n = KeyHead(m, KeyOf[r])
        BY <1>2, <2>1
      <3>2. server[n].strategy = M /\ server[n].strategy = m
        BY <1>3, <3>1, ServersAgree DEF Runs, Settled
      <3> QED
        BY <3>1, <3>2
    <2>2. RunStep(M)
      BY <1>1, <1>3, <2>1 DEF RunStep
    <2> QED
      BY <2>2, RunsKept
  <1>4. CASE Written
    BY <1>3, <1>4
  <1>5. CASE ~Written
    <2>1. PICK r \in Req : write[r].version = 0 /\ write'[r].version # 0
      BY <1>5 DEF Written
    <2>2. write[r] \in [pc: {"idle", "failed", "assigned", "recorded",
                             "committed", "returned", "orphaned"},
                        node: Node, version: Nat]
      BY <1>1 DEF Parts, WriteOK
    <2>3. \E n \in Node : WriteAssign(r, n)
      <3>1. \/ write'[r] = write[r]
            \/ write'[r] = [write[r] EXCEPT !.pc = "failed"]
            \/ \E n \in Node : WriteAssign(r, n)
            \/ \E pc \in {"recorded", "committed", "returned"} :
                  write'[r] = [write[r] EXCEPT !.pc = pc]
        BY <1>1, WritesMove
      <3> QED
        BY <2>1, <2>2, <3>1
    <2>4. PICK M \in Modes : Settled(M)
      BY <1>2, <2>3
    <2>5. Runs(M)
      BY <1>1, <1>5, <2>4, UnwrittenFacts DEF Runs
    <2> QED
      BY <1>3, <2>5
  <1> QED
    BY <1>4, <1>5

(* A restart after the first write is against the rule, and no strategy is *)
(* replaced while all servers and calls are of one mode.                   *)
LEMMA NoEndInUse ==
  ASSUME Always, NEW n \in Node, EndStep(n), orderly', Written',
         orderly /\ Written => \E M \in Modes : Runs(M)
  PROVE  FALSE
  <1>1. Parts /\ OneMode
    BY TypeParts DEF Always
  <1>2. Written
    <2>1. PICK r \in Req : write'[r].version # 0
      BY DEF Written
    <2>2. write[r] \in [pc: {"idle", "failed", "assigned", "recorded",
                             "committed", "returned", "orphaned"},
                        node: Node, version: Nat]
      BY <1>1 DEF Parts, WriteOK
    <2>3. \/ write'[r] = write[r]
          \/ write'[r] = [write[r] EXCEPT !.pc = "failed"]
          \/ write'[r] = [write[r] EXCEPT !.pc = "orphaned"]
      BY <1>1, EndEffect
    <2>4. write[r].version # 0
      BY <2>1, <2>2, <2>3
    <2> QED
      BY <2>4 DEF Written
  <1>3. ~Restart(n)
    BY <1>2 DEF Restart
  <1>4. PICK c \in calls : c.pc = "swap" /\ orderly' = orderly
    BY <1>3 DEF EndStep, Swapping, ConfigureStrategy, ghosts
  <1> QED
    BY <1>2, <1>4 DEF Runs, Settled

(* Each step keeps the three parts of the invariant. *)
LEMMA NextIInv ==
  ASSUME IInv, [Next]_vars
  PROVE  IInv'
  <1>1. /\ Always /\ Always' /\ Parts /\ orderly \in BOOLEAN
        /\ \A c \in calls : c.node \in Node
    BY NextAlways, TypeParts DEF IInv, Always, Parts, GhostsOK, PendingOK
  <1>2. ASSUME orderly', Written' PROVE \E M \in Modes : Runs(M)'
    <2>1. CASE LoopStep
      <3>1. Written
        BY <1>2, <2>1 DEF LoopStep, Written
      <3>2. orderly
        BY <1>1, <1>2, <2>1
        DEF LoopStep, StartConfigure, NextConfigure, ConfigureFails, ConfigureBegins,
            ConfigureNode, ConfigureStubs, ghosts
      <3>3. PICK M \in Modes : Runs(M)
        BY <3>1, <3>2 DEF IInv
      <3> QED
        BY <1>1, <1>2, <2>1, <3>1, <3>3, LoopRuns
    <2>2. CASE HandlerStep
      <3>1. orderly
        BY <1>1, <1>2, <2>2, OrderlyMoves
      <3> QED
        BY <1>1, <1>2, <2>2, <3>1, HandlerRuns DEF IInv
    <2>3. ASSUME NEW n \in Node, EndStep(n) PROVE FALSE
      BY <1>1, <1>2, <2>3, NoEndInUse DEF IInv
    <2> QED
      BY <1>1, <2>1, <2>2, <2>3, Steps
  <1> QED
    BY <1>1, <1>2 DEF IInv

(* IInv is an invariant of the deployment, whoever configures, restarts    *)
(* and writes when.                                                        *)
THEOREM Invariance == Spec => []IInv
  <1>1. Init => IInv
    <2>1. Init => ~Written
      <3> SUFFICES ASSUME Init, NEW r \in Req PROVE write[r].version = 0
        BY DEF Written
      <3> QED
        BY DEF Init
    <2> QED
      BY <2>1, InitAlways DEF IInv
  <1>2. IInv /\ [Next]_vars => IInv'
    BY NextIInv
  <1> QED
    BY <1>1, <1>2, PTL DEF Spec

LEMMA AtLeastTransitive ==
  ASSUME NEW x \in Nat, NEW y \in Nat, NEW z \in Nat, x >= y, y >= z
  PROVE  x >= z
  OBVIOUS

(* In an orderly deployment an acknowledged write, or a newer one of its   *)
(* key, is committed at the tail of the key and recorded on every server,  *)
(* whatever Configure calls with the same file overlap, are repeated, fail *)
(* or are handled late.                                                    *)
THEOREM AckedTheorem == Spec => []AckedThroughConfigure
  <1>1. IInv => AckedThroughConfigure
    <2> SUFFICES ASSUME IInv, orderly, NEW a \in acked
                 PROVE  LET k == KeyOf[a.req]
                        IN  /\ \A n \in Node : store[n][k].seen >= a.version
                            /\ store[KeyTail(server[0].strategy, k)][k].committed
                                 >= a.version
      BY DEF AckedThroughConfigure
    <2> DEFINE k == KeyOf[a.req]
    <2>1. Parts /\ Taken
      BY TypeParts DEF IInv, Always
    <2>w. Written
      BY <2>1, Reads DEF Taken, Issued, Written
    <2>2. PICK M \in Modes : Runs(M)
      BY <2>w DEF IInv
    <2>3. k \in Key /\ a.version \in Nat
      BY <2>1, Reads, Nodes
    <2>4. \A n \in Node : /\ store[n][k].seen \in Nat /\ store[n][k].committed \in Nat
                          /\ store[n][k].committed <= store[n][k].seen
      <3>1. \A n \in Node : store[n][k] \in KeyState
        BY <2>1, <2>3, Reads
      <3> QED
        BY <2>2, <2>3, <3>1, KeyStateFields DEF Runs, Facts, CommittedIsSeen
    <2> DEFINE t == KeyTail(M, k)
    <2>5. store[t][k].committed >= a.version /\ t \in Node
      BY <2>2, <2>3, Way DEF Runs, Facts, AckedCommitted, Committed
    <2>6. server[0].strategy = M
      BY <2>2, Nodes, ServersAgree DEF Runs, Settled
    <2>7. \A n \in Node : n # t => store[n][k].seen >= store[t][k].seen
      <3>1. \A n \in Node : n # t => Place(M, k, n) < Place(M, k, t)
        BY <2>3, Way
      <3> QED
        BY <2>2, <2>3, <2>5, <3>1 DEF Runs, Facts, Ordered
    <2> HIDE DEF t
    <2>8. store[t][k].seen >= a.version
      <3>1. /\ store[t][k].seen \in Nat /\ store[t][k].committed \in Nat
            /\ store[t][k].seen >= store[t][k].committed
        BY <2>4, <2>5
      <3> QED
        BY <2>3, <2>5, <3>1, AtLeastTransitive
    <2>9. ASSUME NEW n \in Node, n # t PROVE store[n][k].seen >= a.version
      <3>1. /\ store[n][k].seen \in Nat /\ store[t][k].seen \in Nat
            /\ store[n][k].seen >= store[t][k].seen
        BY <2>4, <2>5, <2>7, <2>9
      <3> QED
        BY <2>3, <2>8, <3>1, AtLeastTransitive
    <2>10. /\ \A n \in Node : store[n][k].seen >= a.version
           /\ store[t][k].committed >= a.version
      BY <2>5, <2>8, <2>9
    <2> QED
      BY <2>6, <2>10 DEF t
  <1> QED
    BY <1>1, Invariance, PTL

-----------------------------------------------------------------------------
(* The Ack worker, which every Configure in CRAQ mode stops and starts,    *)
(* for every set of acks and any number of Configure calls: the queue      *)
(* survives every change of the worker.                                    *)

(* The worker holds the mutex from its test to its pop, and has an ack in  *)
(* hand only while it sends it.  While a Configure call is at work the     *)
(* flag is down, and a worker that is awake with the flag up was woken for *)
(* an ack, so that it never pops an empty queue.                           *)
Hold == mutex = "worker" <=> worker \in {"waiting", "goingToBlock", "awake"}
InHand == inHand # <<>> <=> worker = "sending"
FlagDown == /\ configurer # "idle" => ~running
            /\ configurer = "joined" => worker \in {"none", "exited"}
AwakeForAck == worker = "awake" /\ running => ackQueue # <<>>

WorkerIInv == WorkerTypeOK /\ Hold /\ InHand /\ FlagDown /\ AwakeForAck /\ InOrderNoneLost

-----------------------------------------------------------------------------
(* Sequences *)

(* A push at the end of the queue is a push at the end of all there is. *)
LEMMA PushLast ==
  ASSUME NEW s \in Seq(Ack), NEW t \in Seq(Ack), NEW u \in Seq(Ack), NEW e \in Ack
  PROVE  Append(s \o t \o u, e) = s \o t \o Append(u, e)
  <1>1. s \o t \in Seq(Ack) /\ <<e>> \in Seq(Ack) /\ (s \o t) \o u \in Seq(Ack)
    BY ConcatProperties
  <1>2. Append(u, e) = u \o <<e>>
    BY AppendIsConcat
  <1>3. Append((s \o t) \o u, e) = ((s \o t) \o u) \o <<e>>
    BY <1>1, AppendIsConcat
  <1>4. ((s \o t) \o u) \o <<e>> = (s \o t) \o (u \o <<e>>)
    BY <1>1, ConcatAssociative
  <1> QED
    BY <1>2, <1>3, <1>4

(* What the worker pops goes from the front of the queue to its hand. *)
LEMMA PopFirst ==
  ASSUME NEW S, NEW s \in Seq(S), NEW u \in Seq(S), u # <<>>
  PROVE  /\ \E e \in S : SubSeq(u, 1, 1) = <<e>>
         /\ Tail(u) \in Seq(S)
         /\ s \o <<>> \o u = s \o SubSeq(u, 1, 1) \o Tail(u)
  <1>1. Len(u) \in Nat \ {0} /\ Head(u) \in S /\ Tail(u) \in Seq(S)
    BY EmptySeq, HeadTailProperties, LenProperties
  <1>2. SubSeq(u, 1, 1) = <<Head(u)>>
    <2> DEFINE a == SubSeq(u, 1, 1)
               b == <<Head(u)>>
    <2>1. a \in Seq(S) /\ Len(a) = 1 /\ a[1] = u[1]
      BY <1>1
    <2>2. b \in Seq(S) /\ Len(b) = 1 /\ b[1] = u[1]
      BY <1>1, HeadTailProperties
    <2> HIDE DEF a, b
    <2>3. Len(a) = Len(b) /\ \A i \in 1 .. Len(a) : a[i] = b[i]
      BY <2>1, <2>2
    <2>4. a = b
      BY <2>1, <2>2, <2>3, SeqEqual
    <2> QED
      BY <2>4 DEF a, b
  <1>3. u = <<Head(u)>> \o Tail(u)
    BY <1>1
  <1>4. s \o <<>> = s
    BY ConcatEmptySeq
  <1>5. s \o (<<Head(u)>> \o Tail(u)) = (s \o <<Head(u)>>) \o Tail(u)
    BY <1>1, ConcatAssociative
  <1> QED
    BY <1>1, <1>2, <1>3, <1>4, <1>5

(* What it has sent goes from its hand to the end of what was sent. *)
LEMMA SendFirst ==
  ASSUME NEW S, NEW s \in Seq(S), NEW t \in Seq(S), NEW u \in Seq(S)
  PROVE  /\ s \o t \in Seq(S)
         /\ s \o t \o u = (s \o t) \o <<>> \o u
  BY ConcatProperties, ConcatEmptySeq

-----------------------------------------------------------------------------
(* No worker runs at the start. *)
LEMMA InitWorkerIInv == WorkerInit => WorkerIInv
  <1> SUFFICES ASSUME WorkerInit PROVE WorkerIInv
    OBVIOUS
  <1>1. WorkerTypeOK
    <2>1. 0 \in 0 .. MaxConfigures
      BY ConfiguresAssumption
    <2>2. <<>> \in Seq(Ack)
      BY EmptySeq
    <2> QED
      BY <2>1, <2>2 DEF WorkerInit, WorkerTypeOK
  <1>2. InOrderNoneLost
    <2>1. <<>> \o <<>> \o <<>> = <<>>
      BY EmptySeq, ConcatEmptySeq
    <2> QED
      BY <2>1 DEF WorkerInit, InOrderNoneLost
  <1>3. Hold /\ InHand /\ FlagDown /\ AwakeForAck
    BY DEF WorkerInit, Hold, InHand, FlagDown, AwakeForAck
  <1> QED
    BY <1>1, <1>2, <1>3 DEF WorkerIInv

(* The four sequences of acks that InOrderNoneLost compares *)
LEMMA AreSequences ==
  ASSUME WorkerTypeOK
  PROVE  /\ ackQueue \in Seq(Ack) /\ sent \in Seq(Ack) /\ arrived \in Seq(Ack)
         /\ inHand \in Seq(Ack)
  <1>1. ackQueue \in Seq(Ack) /\ sent \in Seq(Ack) /\ arrived \in Seq(Ack)
    BY DEF WorkerTypeOK
  <1>2. CASE inHand = <<>>
    BY <1>1, <1>2, EmptySeq
  <1>3. CASE inHand # <<>>
    <2>1. PICK a \in Ack : inHand = <<a>>
      BY <1>3 DEF WorkerTypeOK
    <2> QED
      BY <1>1, <2>1
  <1> QED
    BY <1>2, <1>3

(* A push adds its ack at both ends of InOrderNoneLost. *)
LEMMA PushEffect ==
  ASSUME WorkerTypeOK, InOrderNoneLost, NEW a \in Ack, Push(a)
  PROVE  /\ ackQueue' \in Seq(Ack) /\ arrived' \in Seq(Ack) /\ ackQueue' # <<>>
         /\ InOrderNoneLost'
  <1>1. arrived' = Append(arrived, a) /\ ackQueue' = Append(ackQueue, a)
        /\ sent' = sent /\ inHand' = inHand
    BY DEF Push
  <1>2. ackQueue \in Seq(Ack) /\ sent \in Seq(Ack) /\ inHand \in Seq(Ack)
        /\ arrived \in Seq(Ack)
    BY AreSequences
  <1>3. Append(ackQueue, a) \in Seq(Ack) /\ Append(arrived, a) \in Seq(Ack)
        /\ Append(ackQueue, a) # <<>>
    BY <1>2, AppendProperties
  <1>4. Append(sent \o inHand \o ackQueue, a) = sent \o inHand \o Append(ackQueue, a)
    BY <1>2, PushLast
  <1> QED
    BY <1>1, <1>3, <1>4 DEF InOrderNoneLost

(* The worker, the handlers and Configure keep the invariant. *)
LEMMA StepWorkerIInv == WorkerIInv /\ [WorkerNext]_workerVars => WorkerIInv'
  <1> SUFFICES ASSUME WorkerIInv, [WorkerNext]_workerVars PROVE WorkerIInv'
    OBVIOUS
  <1> USE DEF WorkerIInv, WorkerTypeOK, Hold, InHand, FlagDown, AwakeForAck
  <1> DEFINE rest == <<running, handler, arrived, configurer, configures>>
  <1>1. ASSUME NEW a \in Ack, Push(a)
        PROVE  WorkerIInv'
    <2>1. /\ ackQueue' \in Seq(Ack) /\ arrived' \in Seq(Ack) /\ ackQueue' # <<>>
          /\ InOrderNoneLost'
      BY <1>1, PushEffect
    <2>2. handler' \in [Ack -> {"new", "pushed", "returned"}]
      BY <1>1 DEF Push
    <2> QED
      BY <1>1, <2>1, <2>2 DEF Push
  <1>2. ASSUME NEW a \in Ack, NotifyPushed(a)
        PROVE  WorkerIInv'
    <2>1. handler' \in [Ack -> {"new", "pushed", "returned"}]
      BY <1>2 DEF NotifyPushed
    <2>2. InOrderNoneLost'
      BY <1>2 DEF NotifyPushed, InOrderNoneLost
    <2>3. worker' = worker \/ (worker = "blocked" /\ worker' = "woken")
      BY <1>2 DEF NotifyPushed, Notify
    <2>4. UNCHANGED <<mutex, ackQueue, running, inHand, sent, arrived, configurer, configures>>
      BY <1>2 DEF NotifyPushed
    <2>5. WorkerTypeOK'
      BY <2>1, <2>3, <2>4
    <2> QED
      BY <2>2, <2>3, <2>4, <2>5
  <1>3. CASE WorkerLock /\ UNCHANGED rest
    BY <1>3 DEF WorkerLock, WorkerLeaves, WorkerAt, InOrderNoneLost
  <1>4. CASE (WorkerTest \/ WorkerBlock \/ SpuriousWakeup) /\ UNCHANGED rest
    BY <1>4 DEF WorkerTest, WorkerBlock, SpuriousWakeup, WorkerAt, InOrderNoneLost
  <1>5. CASE WorkerPop /\ UNCHANGED rest
    <2>1. CASE WorkerLeaves("free")
      BY <1>5, <2>1 DEF WorkerPop, WorkerLeaves, WorkerAt, InOrderNoneLost
    <2>2. CASE ~WorkerLeaves("free")
      <3>1. /\ worker = "awake" /\ running /\ inHand' = SubSeq(ackQueue, 1, 1)
            /\ ackQueue' = Tail(ackQueue) /\ sent' = sent /\ arrived' = arrived
            /\ worker' = "sending" /\ mutex' = "free"
        BY <1>5, <2>2 DEF WorkerPop, WorkerAt
      <3>2. ackQueue # <<>> /\ inHand = <<>> /\ ackQueue \in Seq(Ack) /\ sent \in Seq(Ack)
        BY <3>1
      <3>3. /\ \E e \in Ack : inHand' = <<e>>
            /\ ackQueue' \in Seq(Ack)
            /\ sent \o <<>> \o ackQueue = sent \o inHand' \o ackQueue'
        BY <3>1, <3>2, PopFirst
      <3>4. InOrderNoneLost'
        BY <3>1, <3>2, <3>3 DEF InOrderNoneLost
      <3>5. inHand' # <<>>
        BY <3>3
      <3> QED
        BY <1>5, <3>1, <3>3, <3>4, <3>5
    <2> QED
      BY <2>1, <2>2
  <1>6. CASE WorkerCall /\ UNCHANGED rest
    <2>1. ackQueue \in Seq(Ack) /\ sent \in Seq(Ack) /\ inHand \in Seq(Ack)
      BY AreSequences
    <2>2. sent' \in Seq(Ack) /\ InOrderNoneLost'
      BY <1>6, <2>1, SendFirst DEF WorkerCall, InOrderNoneLost
    <2> QED
      BY <1>6, <2>2 DEF WorkerCall
  <1>7. CASE StoreFlag
    <2>1. configures' \in 0 .. MaxConfigures
      BY <1>7, ConfiguresAssumption DEF StoreFlag
    <2>2. /\ UNCHANGED <<mutex, ackQueue, worker, inHand, sent, handler, arrived>>
          /\ running' = FALSE /\ configurer' = "stopped"
      BY <1>7 DEF StoreFlag
    <2> QED
      BY <2>1, <2>2 DEF InOrderNoneLost
  <1>8. CASE RestartStep
    <2>1. UNCHANGED <<mutex, ackQueue, inHand, sent, handler, arrived, configures>>
      BY <1>8 DEF RestartStep, NotifyStop, Join, Start
    <2>2. InOrderNoneLost'
      BY <2>1 DEF InOrderNoneLost
    <2>3. CASE NotifyStop
      <3>1. worker' = worker \/ (worker = "blocked" /\ worker' = "woken")
        BY <2>3 DEF NotifyStop, Notify
      <3>2. configurer = "stopped" /\ configurer' = "notified" /\ running' = running
        BY <2>3 DEF NotifyStop
      <3>3. WorkerTypeOK'
        BY <2>1, <3>1, <3>2
      <3> QED
        BY <2>1, <2>2, <3>1, <3>2, <3>3
    <2>4. CASE Join
      BY <2>1, <2>2, <2>4 DEF Join
    <2>5. CASE Start
      BY <2>1, <2>2, <2>5 DEF Start
    <2> QED
      BY <1>8, <2>3, <2>4, <2>5 DEF RestartStep
  <1>9. CASE UNCHANGED workerVars
    BY <1>9 DEF workerVars, InOrderNoneLost
  <1> QED
    BY <1>1, <1>2, <1>3, <1>4, <1>5, <1>6, <1>7, <1>8, <1>9 DEF WorkerNext, WorkerStep

-----------------------------------------------------------------------------
(* No ack is lost, sent twice or overtaken, whatever the Configure calls   *)
(* do to the worker: what was pushed is what was sent, what is in hand and *)
(* what is queued, in this order.                                          *)
THEOREM AckOrderTheorem == WorkerSpec => []InOrderNoneLost
  <1>1. WorkerIInv => InOrderNoneLost
    BY DEF WorkerIInv
  <1> QED
    BY <1>1, InitWorkerIInv, StepWorkerIInv, PTL DEF WorkerSpec

(* The worker pops only what is there, holding the mutex, and is replaced  *)
(* only when it has ended.                                                 *)
THEOREM AckInvariance == WorkerSpec => []WorkerIInv
  BY InitWorkerIInv, StepWorkerIInv, PTL DEF WorkerSpec
=============================================================================
