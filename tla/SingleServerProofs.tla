------------------------- MODULE SingleServerProofs -------------------------
(***************************************************************************)
(* Theorems about a deployment of one server, in every mode, for any       *)
(* number of keys and of concurrent writes, lost Acks included: it is the  *)
(* register of its committed values, and when every write is answered the  *)
(* last versions are committed and nothing is pending.                     *)
(*                                                                         *)
(* The three modes make the same four steps: a write is assigned, recorded *)
(* and committed, and its client is told.  Each mode is shown to make no   *)
(* others; the rest is proved of the four steps once.                      *)
(***************************************************************************)
EXTENDS SingleServer, ReplicaServerProofs

(* The state of key k, now and after the step; the version of a write *)
S(k) == store[0][k]
T(k) == store'[0][k]
V(r) == write[r].version

Typed ==
    /\ mode \in {"CHAIN", "CRAQ", "CROWN"}
    /\ store \in [Node -> [Key -> KeyState]]
    /\ IF mode = "CROWN"
       THEN write \in [Req -> [pc: {"idle", "assigned", "recorded", "committed", "returned"},
                               node: {0}, version: Nat]]
       ELSE write \in [Req -> [pc: {"idle", "assigned", "recorded", "committed", "returned"},
                               version: Nat]]

(* Nothing is ever sent to another server. *)
Alone == /\ rpc = {} /\ ackRpc = {}
         /\ queue = [n \in Node |-> <<>>] /\ ackQueue = [n \in Node |-> <<>>]

-----------------------------------------------------------------------------
(* The steps *)

(* The write r alone goes on, and only the state of its key may change. *)
Became(r, pc, v) ==
    /\ write'[r].pc = pc /\ write'[r].version = v
    /\ \A q \in Req : q # r => write'[q].pc = write[q].pc /\ write'[q].version = V(q)
    /\ T(KeyOf[r]) \in KeyState
    /\ \A k \in Key : k # KeyOf[r] => T(k) = S(k)

SeenSame(s, t) == t.seen = s.seen /\ t.seenValue = s.seenValue
CommittedSame(s, t) == t.committed = s.committed /\ t.committedValue = s.committedValue

Assigned(r) ==
    LET s == S(KeyOf[r])
        t == T(KeyOf[r])
    IN  /\ write[r].pc = "idle"
        /\ Became(r, "assigned", s.next + 1)
        /\ t.next = s.next + 1 /\ t.pending = s.pending
        /\ SeenSame(s, t) /\ CommittedSame(s, t)
        /\ UNCHANGED acked

(* CRAQ keeps the version, and all it had. *)
Recorded(r) ==
    LET s == S(KeyOf[r])
        t == T(KeyOf[r])
    IN  /\ write[r].pc = "assigned"
        /\ Became(r, "recorded", V(r))
        /\ t.next >= s.next /\ t.next \in {s.next, V(r)}
        /\ t.seen >= s.seen /\ t.seen >= V(r)
        /\ SeenSame(s, t) \/ (t.seen = V(r) /\ t.seenValue = r)
        /\ CommittedSame(s, t)
        /\ \A p \in t.pending : p \in s.pending \/ (p.version = V(r) /\ p.value = r)
        /\ mode = "CRAQ" => /\ \E p \in t.pending : p.version = V(r)
                            /\ \A p \in s.pending : \E q \in t.pending : q.version = p.version
        /\ UNCHANGED acked

(* In CRAQ mode a version that is no longer here is not committed. *)
Committed(r) ==
    LET s == S(KeyOf[r])
        t == T(KeyOf[r])
    IN  /\ write[r].pc = "recorded"
        /\ Became(r, "committed", V(r))
        /\ t.next >= s.next /\ t.next \in {s.next, V(r)}
        /\ t.seen >= s.seen
        /\ SeenSame(s, t) \/ (t.seen = V(r) /\ t.seenValue = r)
        /\ t.committed >= s.committed
        /\ \/ CommittedSame(s, t)
           \/ /\ t.committed = V(r)
              /\ \/ t.committedValue = r
                 \/ \E p \in s.pending : p.version = V(r) /\ p.value = t.committedValue
        /\ \/ t.committed >= V(r)
           \/ mode = "CRAQ" /\ \A p \in s.pending : p.version # V(r)
        /\ \A p \in t.pending : p \in s.pending /\ (t.committed # 0 => p.version > t.committed)
        /\ mode = "CRAQ" =>
              \A p \in s.pending : p \in t.pending \/ t.committed >= p.version
        /\ UNCHANGED acked

Answered(r) ==
    /\ write[r].pc = "committed"
    /\ Became(r, "returned", V(r)) /\ T(KeyOf[r]) = S(KeyOf[r])
    /\ acked' \in {acked, acked \cup {[req |-> r, version |-> V(r)]}}

Nothing ==
    /\ \A k \in Key : T(k) = S(k)
    /\ \A r \in Req : write'[r].pc = write[r].pc /\ write'[r].version = V(r)
    /\ UNCHANGED acked

Step == \/ \E r \in Req : Assigned(r) \/ Recorded(r) \/ Committed(r) \/ Answered(r)
        \/ Nothing

(* The state of every key is a KeyState; one critical section changes one. *)
LEMMA KeyStates ==
  ASSUME Typed
  PROVE  \A k \in Key : /\ S(k) \in KeyState /\ S(k).next \in Nat /\ S(k).seen \in Nat
                        /\ S(k).committed \in Nat
                        /\ S(k).pending \subseteq [version: Nat, value: Req]
  <1>1. \A k \in Key : S(k) \in KeyState
    BY SingleAssumption DEF Typed, S
  <1> QED
    BY <1>1 DEF KeyState

LEMMA Updated ==
  ASSUME Typed, NEW k \in Key, NEW t \in KeyState,
         store' = [store EXCEPT ![0][k] = t]
  PROVE  /\ store' \in [Node -> [Key -> KeyState]]
         /\ T(k) = t
         /\ \A j \in Key : j # k => T(j) = S(j)
  BY SingleAssumption DEF Typed, S, T

LEMMA Writes ==
  ASSUME Typed
  PROVE  \A r \in Req : KeyOf[r] \in Key /\ V(r) \in Nat
  BY KeyOfAssumption DEF Typed, V

-----------------------------------------------------------------------------
(* CHAIN mode *)

LEMMA ChainSteps ==
  ASSUME Typed, Alone, mode = "CHAIN", Chain!Next, UNCHANGED <<mode, ackQueue, ackRpc>>
  PROVE  Step /\ Typed' /\ Alone'
  <1>1. Node = {0} /\ Chain!HeadNode = 0 /\ Chain!TailNode = 0 /\ Chain!IsTail(0)
        /\ \A n \in Node : Chain!IsHead(n)
    BY SingleAssumption DEF Chain!HeadNode, Chain!TailNode, Chain!IsTail, Chain!IsHead
  <1>2. write \in [Req -> [pc: {"idle", "assigned", "recorded", "committed", "returned"},
                           version: Nat]]
    BY DEF Typed
  <1>3. mode' = mode /\ ackQueue' = ackQueue /\ ackRpc' = ackRpc
    OBVIOUS
  <1>4. ASSUME NEW r \in Req, NEW n \in Node, Chain!WriteAssign(r, n)
        PROVE  Step /\ Typed' /\ Alone'
    <2> DEFINE k == KeyOf[r]
               t == AssignNextVersion(S(k))
    <2>1. /\ write[r].pc = "idle" /\ store' = [store EXCEPT ![0][k] = t]
          /\ write' = [write EXCEPT ![r] = [pc |-> "assigned", version |-> t.next]]
          /\ UNCHANGED <<queue, rpc, acked, lost, answer>>
      BY <1>1, <1>4 DEF Chain!WriteAssign, Chain!UpdateKey, Chain!AssignNextVersion,
                        AssignNextVersion, S
    <2>2. k \in Key /\ S(k) \in KeyState
      BY Writes, KeyStates
    <2>3. /\ t \in KeyState /\ t.next = S(k).next + 1 /\ t.pending = S(k).pending
          /\ SeenSame(S(k), t) /\ CommittedSame(S(k), t)
      BY <2>2, AssignNextVersionEffect DEF SeenSame, CommittedSame
    <2> HIDE DEF t
    <2>4. /\ store' \in [Node -> [Key -> KeyState]] /\ T(k) = t
          /\ \A j \in Key : j # k => T(j) = S(j)
      BY <2>1, <2>2, <2>3, Updated
    <2>5. t.next \in Nat
      BY <2>3 DEF KeyState
    <2>6. Became(r, "assigned", S(k).next + 1)
      BY <1>2, <2>1, <2>3, <2>4 DEF Became, V
    <2>7. Assigned(r)
      BY <2>1, <2>3, <2>4, <2>6 DEF Assigned
    <2> QED
      BY <1>2, <1>3, <2>1, <2>4, <2>5, <2>7 DEF Step, Typed, Alone
  <1>5. ASSUME NEW r \in Req, Chain!WriteRecord(r)
        PROVE  Step /\ Typed' /\ Alone'
    <2> DEFINE k == KeyOf[r]
               t == RecordLocalWriteIfNewer(S(k), r, V(r))
    <2>1. /\ write[r].pc = "assigned" /\ store' = [store EXCEPT ![0][k] = t]
          /\ write' = [write EXCEPT ![r].pc = "recorded"]
          /\ UNCHANGED <<queue, rpc, acked, lost, answer>>
      BY <1>1, <1>5 DEF Chain!WriteRecord, Chain!UpdateKey, Chain!WriteAt,
                        Chain!RecordLocalWriteIfNewer, RecordLocalWriteIfNewer,
                        Chain!Later, Later, S, V
    <2>2. k \in Key /\ S(k) \in KeyState /\ V(r) \in Nat
      BY Writes, KeyStates
    <2>3. /\ t \in KeyState /\ t.next >= S(k).next /\ t.next \in {S(k).next, V(r)}
          /\ t.seen >= S(k).seen /\ t.seen >= V(r)
          /\ SeenSame(S(k), t) \/ (t.seen = V(r) /\ t.seenValue = r)
          /\ CommittedSame(S(k), t) /\ t.pending = S(k).pending
      BY <2>2, RecordIfNewerEffect DEF SeenSame, CommittedSame
    <2> HIDE DEF t
    <2>4. /\ store' \in [Node -> [Key -> KeyState]] /\ T(k) = t
          /\ \A j \in Key : j # k => T(j) = S(j)
      BY <2>1, <2>2, <2>3, Updated
    <2>5. Became(r, "recorded", V(r))
      BY <1>2, <2>1, <2>3, <2>4 DEF Became, V
    <2>6. Recorded(r)
      BY <2>1, <2>3, <2>4, <2>5 DEF Recorded
    <2> QED
      BY <1>2, <1>3, <2>1, <2>4, <2>6 DEF Step, Typed, Alone
  <1>6. ASSUME NEW r \in Req, Chain!WriteCommit(r)
        PROVE  Step /\ Typed' /\ Alone'
    <2> DEFINE k == KeyOf[r]
               t == MarkVersionCommittedIfNewer(S(k), r, V(r))
    <2>1. /\ write[r].pc = "recorded" /\ store' = [store EXCEPT ![0][k] = t]
          /\ write' = [write EXCEPT ![r].pc = "committed"]
          /\ UNCHANGED <<queue, rpc, acked, lost, answer>>
      BY <1>1, <1>6 DEF Chain!WriteCommit, Chain!UpdateKey, Chain!WriteAt,
                        Chain!MarkVersionCommittedIfNewer, MarkVersionCommittedIfNewer,
                        Chain!Prune, Prune, Chain!Later, Later, S, V
    <2>2. k \in Key /\ S(k) \in KeyState /\ V(r) \in Nat
      BY Writes, KeyStates
    <2>3. /\ t \in KeyState /\ t.next >= S(k).next /\ t.next \in {S(k).next, V(r)}
          /\ t.seen >= S(k).seen
          /\ SeenSame(S(k), t) \/ (t.seen = V(r) /\ t.seenValue = r)
          /\ t.committed >= S(k).committed /\ t.committed >= V(r)
          /\ CommittedSame(S(k), t) \/ (t.committed = V(r) /\ t.committedValue = r)
          /\ \A p \in t.pending : p \in S(k).pending /\ p.version > t.committed
      BY <2>2, MarkCommittedEffect DEF SeenSame, CommittedSame
    <2> HIDE DEF t
    <2>4. /\ store' \in [Node -> [Key -> KeyState]] /\ T(k) = t
          /\ \A j \in Key : j # k => T(j) = S(j)
      BY <2>1, <2>2, <2>3, Updated
    <2>5. Became(r, "committed", V(r))
      BY <1>2, <2>1, <2>3, <2>4 DEF Became, V
    <2>6. Committed(r)
      BY <2>1, <2>3, <2>4, <2>5 DEF Committed
    <2> QED
      BY <1>2, <1>3, <2>1, <2>4, <2>6 DEF Step, Typed, Alone
  <1>7. ASSUME NEW r \in Req, Chain!WriteAck(r)
        PROVE  Step /\ Typed' /\ Alone'
    <2>1. /\ write[r].pc = "committed" /\ write' = [write EXCEPT ![r].pc = "returned"]
          /\ acked' \in {acked, acked \cup {[req |-> r, version |-> V(r)]}}
          /\ UNCHANGED <<store, queue, rpc, answer>>
      BY <1>7 DEF Chain!WriteAck, Chain!SendClientAck, Chain!AckRequest, Chain!Message,
                  Chain!WriteAt, V
    <2>2. KeyOf[r] \in Key /\ T(KeyOf[r]) \in KeyState /\ \A k \in Key : T(k) = S(k)
      BY <2>1, Writes, KeyStates DEF S, T
    <2>3. Answered(r)
      BY <1>2, <2>1, <2>2 DEF Answered, Became, V
    <2> QED
      BY <1>2, <1>3, <2>1, <2>3 DEF Step, Typed, Alone
  <1>8. CASE UNCHANGED <<store, queue, rpc, write, acked>>
    <2>1. Nothing
      BY <1>8 DEF Nothing, S, T, V
    <2> QED
      BY <1>3, <1>8, <2>1 DEF Step, Typed, Alone
  <1>9. /\ \A r \in Req, n \in Node : ~Chain!WriteRejected(r, n)
        /\ \A r \in Req : ~Chain!WriteForward(r)
    BY <1>1 DEF Chain!WriteRejected, Chain!WriteForward
  <1>10. \A n \in Node : ~Chain!Send(n)
    BY DEF Alone, Chain!Send, Chain!WorkerSend
  <1>11. \A n \in Node, k \in Key :
            Chain!HandleRead(n, k) => UNCHANGED <<store, queue, rpc, write, acked>>
    BY DEF Chain!HandleRead
  <1>12. Chain!Terminating => UNCHANGED <<store, queue, rpc, write, acked>>
    BY DEF Chain!Terminating, Chain!vars
  <1>13. \/ \E r \in Req, n \in Node : Chain!WriteAssign(r, n)
         \/ \E r \in Req : Chain!WriteRecord(r) \/ Chain!WriteCommit(r) \/ Chain!WriteAck(r)
         \/ UNCHANGED <<store, queue, rpc, write, acked>>
    BY <1>9, <1>10, <1>11, <1>12 DEF Chain!Next, Chain!WriteStep, Chain!Handling, Alone
  <1> QED
    BY <1>4, <1>5, <1>6, <1>7, <1>8, <1>13

-----------------------------------------------------------------------------
(* CROWN mode: a ring of one node *)

LEMMA CrownSteps ==
  ASSUME Typed, Alone, mode = "CROWN", CROWN!Next, UNCHANGED <<mode, ackQueue, ackRpc>>
  PROVE  Step /\ Typed' /\ Alone'
  <1>1. Node = {0} /\ \A r \in Req : write[r].node = 0
    BY SingleAssumption DEF Typed
  <1>2. write \in [Req -> [pc: {"idle", "assigned", "recorded", "committed", "returned"},
                           node: {0}, version: Nat]]
    BY DEF Typed
  <1>3. mode' = mode /\ ackQueue' = ackQueue /\ ackRpc' = ackRpc
    OBVIOUS
  <1>4. ASSUME NEW r \in Req, NEW n \in Node, CROWN!WriteAssign(r, n)
        PROVE  Step /\ Typed' /\ Alone'
    <2> DEFINE k == KeyOf[r]
               t == AssignNextVersion(S(k))
    <2>1. /\ write[r].pc = "idle" /\ store' = [store EXCEPT ![0][k] = t]
          /\ write' = [write EXCEPT ![r] = [pc |-> "assigned", node |-> 0, version |-> t.next]]
          /\ UNCHANGED <<queue, rpc, acked, lost, answer>>
      BY <1>1, <1>4 DEF CROWN!WriteAssign, CROWN!UpdateKey, CROWN!AssignNextVersion,
                        AssignNextVersion, S
    <2>2. k \in Key /\ S(k) \in KeyState
      BY Writes, KeyStates
    <2>3. /\ t \in KeyState /\ t.next = S(k).next + 1 /\ t.pending = S(k).pending
          /\ SeenSame(S(k), t) /\ CommittedSame(S(k), t)
      BY <2>2, AssignNextVersionEffect DEF SeenSame, CommittedSame
    <2> HIDE DEF t
    <2>4. /\ store' \in [Node -> [Key -> KeyState]] /\ T(k) = t
          /\ \A j \in Key : j # k => T(j) = S(j)
      BY <2>1, <2>2, <2>3, Updated
    <2>5. t.next \in Nat
      BY <2>3 DEF KeyState
    <2>6. Became(r, "assigned", S(k).next + 1)
      BY <1>2, <2>1, <2>3, <2>4 DEF Became, V
    <2>7. Assigned(r)
      BY <2>1, <2>3, <2>4, <2>6 DEF Assigned
    <2> QED
      BY <1>2, <1>3, <2>1, <2>4, <2>5, <2>7 DEF Step, Typed, Alone
  <1>5. ASSUME NEW r \in Req, CROWN!WriteRecord(r)
        PROVE  Step /\ Typed' /\ Alone'
    <2> DEFINE k == KeyOf[r]
               t == RecordLocalWriteIfNewer(S(k), r, V(r))
    <2>1. /\ write[r].pc = "assigned" /\ store' = [store EXCEPT ![0][k] = t]
          /\ write' = [write EXCEPT ![r].pc = "recorded"]
          /\ UNCHANGED <<queue, rpc, acked, lost, answer>>
      BY <1>1, <1>5 DEF CROWN!WriteRecord, CROWN!UpdateKey, CROWN!WriteAt,
                        CROWN!RecordLocalWriteIfNewer, RecordLocalWriteIfNewer,
                        CROWN!Later, Later, S, V
    <2>2. k \in Key /\ S(k) \in KeyState /\ V(r) \in Nat
      BY Writes, KeyStates
    <2>3. /\ t \in KeyState /\ t.next >= S(k).next /\ t.next \in {S(k).next, V(r)}
          /\ t.seen >= S(k).seen /\ t.seen >= V(r)
          /\ SeenSame(S(k), t) \/ (t.seen = V(r) /\ t.seenValue = r)
          /\ CommittedSame(S(k), t) /\ t.pending = S(k).pending
      BY <2>2, RecordIfNewerEffect DEF SeenSame, CommittedSame
    <2> HIDE DEF t
    <2>4. /\ store' \in [Node -> [Key -> KeyState]] /\ T(k) = t
          /\ \A j \in Key : j # k => T(j) = S(j)
      BY <2>1, <2>2, <2>3, Updated
    <2>5. Became(r, "recorded", V(r))
      BY <1>2, <2>1, <2>3, <2>4 DEF Became, V
    <2>6. Recorded(r)
      BY <2>1, <2>3, <2>4, <2>5 DEF Recorded
    <2> QED
      BY <1>2, <1>3, <2>1, <2>4, <2>6 DEF Step, Typed, Alone
  <1>6. ASSUME NEW r \in Req, CROWN!WriteCommit(r)
        PROVE  Step /\ Typed' /\ Alone'
    <2> DEFINE k == KeyOf[r]
               t == MarkVersionCommittedIfNewer(S(k), r, V(r))
    <2>1. /\ write[r].pc = "recorded" /\ store' = [store EXCEPT ![0][k] = t]
          /\ write' = [write EXCEPT ![r].pc = "committed"]
          /\ UNCHANGED <<queue, rpc, acked, lost, answer>>
      <3>1. CROWN!MarkVersionCommittedIfNewer(S(k), r, V(r)) = t
        BY DEF CROWN!MarkVersionCommittedIfNewer, MarkVersionCommittedIfNewer,
               CROWN!Prune, Prune, CROWN!Later, Later
      <3> HIDE DEF t
      <3> QED
        BY <1>1, <1>6, <3>1 DEF CROWN!WriteCommit, CROWN!UpdateKey, CROWN!WriteAt, S, V
    <2>2. k \in Key /\ S(k) \in KeyState /\ V(r) \in Nat
      BY Writes, KeyStates
    <2>3. /\ t \in KeyState /\ t.next >= S(k).next /\ t.next \in {S(k).next, V(r)}
          /\ t.seen >= S(k).seen
          /\ SeenSame(S(k), t) \/ (t.seen = V(r) /\ t.seenValue = r)
          /\ t.committed >= S(k).committed /\ t.committed >= V(r)
          /\ CommittedSame(S(k), t) \/ (t.committed = V(r) /\ t.committedValue = r)
          /\ \A p \in t.pending : p \in S(k).pending /\ p.version > t.committed
      BY <2>2, MarkCommittedEffect DEF SeenSame, CommittedSame
    <2> HIDE DEF t
    <2>4. /\ store' \in [Node -> [Key -> KeyState]] /\ T(k) = t
          /\ \A j \in Key : j # k => T(j) = S(j)
      BY <2>1, <2>2, <2>3, Updated
    <2>5. Became(r, "committed", V(r))
      BY <1>2, <2>1, <2>3, <2>4 DEF Became, V
    <2>6. Committed(r)
      BY <2>1, <2>3, <2>4, <2>5 DEF Committed
    <2> QED
      BY <1>2, <1>3, <2>1, <2>4, <2>6 DEF Step, Typed, Alone
  <1>7. ASSUME NEW r \in Req, CROWN!WriteAck(r)
        PROVE  Step /\ Typed' /\ Alone'
    <2>1. /\ write[r].pc = "committed" /\ write' = [write EXCEPT ![r].pc = "returned"]
          /\ acked' \in {acked, acked \cup {[req |-> r, version |-> V(r)]}}
          /\ UNCHANGED <<store, queue, rpc, answer>>
      BY <1>7 DEF CROWN!WriteAck, CROWN!SendClientAck, CROWN!AckRequest, CROWN!Message,
                  CROWN!WriteAt, V
    <2>2. KeyOf[r] \in Key /\ T(KeyOf[r]) \in KeyState /\ \A k \in Key : T(k) = S(k)
      BY <2>1, Writes, KeyStates DEF S, T
    <2>3. Answered(r)
      BY <1>2, <2>1, <2>2 DEF Answered, Became, V
    <2> QED
      BY <1>2, <1>3, <2>1, <2>3 DEF Step, Typed, Alone
  <1>8. CASE UNCHANGED <<store, queue, rpc, write, acked>>
    <2>1. Nothing
      BY <1>8 DEF Nothing, S, T, V
    <2> QED
      BY <1>3, <1>8, <2>1 DEF Step, Typed, Alone
  <1>9. \A r \in Req : ~CROWN!WriteForward(r)
    BY DEF CROWN!WriteForward
  <1>10. \A n \in Node : ~CROWN!Send(n)
    BY DEF Alone, CROWN!Send, CROWN!WorkerSend
  <1>11. \A n \in Node, k \in Key :
            CROWN!HandleRead(n, k) => UNCHANGED <<store, queue, rpc, write, acked>>
    BY DEF CROWN!HandleRead
  <1>12. CROWN!Terminating => UNCHANGED <<store, queue, rpc, write, acked>>
    BY DEF CROWN!Terminating, CROWN!vars
  <1>13. \/ \E r \in Req, n \in Node : CROWN!WriteAssign(r, n)
         \/ \E r \in Req : CROWN!WriteRecord(r) \/ CROWN!WriteCommit(r) \/ CROWN!WriteAck(r)
         \/ UNCHANGED <<store, queue, rpc, write, acked>>
    BY <1>9, <1>10, <1>11, <1>12 DEF CROWN!Next, CROWN!WriteStep, CROWN!Handling, Alone
  <1> QED
    BY <1>4, <1>5, <1>6, <1>7, <1>8, <1>13

-----------------------------------------------------------------------------
(* CRAQ mode *)

LEMMA CraqSteps ==
  ASSUME Typed, Alone, mode = "CRAQ", CRAQ!Next, UNCHANGED <<mode, answer>>
  PROVE  Step /\ Typed' /\ Alone'
  <1>1. Node = {0} /\ CRAQ!HeadNode = 0 /\ CRAQ!TailNode = 0 /\ CRAQ!IsTail(0)
        /\ \A n \in Node : CRAQ!IsHead(n)
    BY SingleAssumption DEF CRAQ!HeadNode, CRAQ!TailNode, CRAQ!IsTail, CRAQ!IsHead
  <1>2. write \in [Req -> [pc: {"idle", "assigned", "recorded", "committed", "returned"},
                           version: Nat]]
    BY DEF Typed
  <1>3. mode' = mode
    OBVIOUS
  <1>4. ASSUME NEW r \in Req, NEW n \in Node, CRAQ!WriteAssign(r, n)
        PROVE  Step /\ Typed' /\ Alone'
    <2> DEFINE k == KeyOf[r]
               t == AssignNextVersion(S(k))
    <2>1. /\ write[r].pc = "idle" /\ store' = [store EXCEPT ![0][k] = t]
          /\ write' = [write EXCEPT ![r] = [pc |-> "assigned", version |-> t.next]]
          /\ UNCHANGED <<queue, rpc, acked, ackQueue, ackRpc>>
      BY <1>1, <1>4 DEF CRAQ!WriteAssign, CRAQ!UpdateKey, CRAQ!AssignNextVersion,
                        AssignNextVersion, CRAQ!ackVars, S
    <2>2. k \in Key /\ S(k) \in KeyState
      BY Writes, KeyStates
    <2>3. /\ t \in KeyState /\ t.next = S(k).next + 1 /\ t.pending = S(k).pending
          /\ SeenSame(S(k), t) /\ CommittedSame(S(k), t)
      BY <2>2, AssignNextVersionEffect DEF SeenSame, CommittedSame
    <2> HIDE DEF t
    <2>4. /\ store' \in [Node -> [Key -> KeyState]] /\ T(k) = t
          /\ \A j \in Key : j # k => T(j) = S(j)
      BY <2>1, <2>2, <2>3, Updated
    <2>5. t.next \in Nat
      BY <2>3 DEF KeyState
    <2>6. Became(r, "assigned", S(k).next + 1)
      BY <1>2, <2>1, <2>3, <2>4 DEF Became, V
    <2>7. Assigned(r)
      BY <2>1, <2>3, <2>4, <2>6 DEF Assigned
    <2> QED
      BY <1>2, <1>3, <2>1, <2>4, <2>5, <2>7 DEF Step, Typed, Alone
  <1>5. ASSUME NEW r \in Req, CRAQ!WriteRecord(r)
        PROVE  Step /\ Typed' /\ Alone'
    <2> DEFINE k == KeyOf[r]
               t == RecordLocalWrite(S(k), r, V(r))
    <2>1. /\ write[r].pc = "assigned" /\ store' = [store EXCEPT ![0][k] = t]
          /\ write' = [write EXCEPT ![r].pc = "recorded"]
          /\ UNCHANGED <<queue, rpc, acked, ackQueue, ackRpc>>
      BY <1>1, <1>5 DEF CRAQ!WriteRecord, CRAQ!UpdateKey, CRAQ!WriteAt,
                        CRAQ!RecordLocalWrite, RecordLocalWrite,
                        CRAQ!Later, Later, CRAQ!ackVars, S, V
    <2>2. k \in Key /\ S(k) \in KeyState /\ V(r) \in Nat
      BY Writes, KeyStates
    <2>3. /\ t \in KeyState /\ t.next >= S(k).next /\ t.next \in {S(k).next, V(r)}
          /\ t.seen >= S(k).seen /\ t.seen >= V(r)
          /\ SeenSame(S(k), t) \/ (t.seen = V(r) /\ t.seenValue = r)
          /\ CommittedSame(S(k), t)
          /\ \A p \in t.pending : p \in S(k).pending \/ (p.version = V(r) /\ p.value = r)
          /\ \E p \in t.pending : p.version = V(r)
          /\ \A p \in S(k).pending : \E q \in t.pending : q.version = p.version
      <3> DEFINE s == S(k)
                 v == V(r)
      <3> HIDE DEF s, v
      <3>1. s \in KeyState /\ v \in Nat
        BY <2>2 DEF s, v
      <3>2. LET u == RecordLocalWrite(s, r, v)
            IN  /\ u \in KeyState /\ u.next >= s.next /\ u.next \in {s.next, v}
                /\ u.seen >= s.seen /\ u.seen >= v
                /\ SeenSame(s, u) \/ (u.seen = v /\ u.seenValue = r)
                /\ CommittedSame(s, u)
                /\ \A p \in u.pending : p \in s.pending \/ (p.version = v /\ p.value = r)
                /\ \E p \in u.pending : p.version = v
                /\ \A p \in s.pending : \E q \in u.pending : q.version = p.version
        BY <3>1, RecordLocalWriteEffect DEF SeenSame, CommittedSame
      <3> QED
        BY <3>2 DEF s, v
    <2> HIDE DEF t
    <2>4. /\ store' \in [Node -> [Key -> KeyState]] /\ T(k) = t
          /\ \A j \in Key : j # k => T(j) = S(j)
      BY <2>1, <2>2, <2>3, Updated
    <2>5. Became(r, "recorded", V(r))
      BY <1>2, <2>1, <2>3, <2>4 DEF Became, V
    <2>6. Recorded(r)
      BY <2>1, <2>3, <2>4, <2>5 DEF Recorded
    <2> QED
      BY <1>2, <1>3, <2>1, <2>4, <2>6 DEF Step, Typed, Alone
  <1>6. ASSUME NEW r \in Req, CRAQ!WriteCommit(r)
        PROVE  Step /\ Typed' /\ Alone'
    <2> DEFINE k == KeyOf[r]
               t == MarkVersionClean(S(k), V(r))
    <2>1. /\ write[r].pc = "recorded" /\ store' = [store EXCEPT ![0][k] = t]
          /\ write' = [write EXCEPT ![r].pc = "committed"]
          /\ UNCHANGED <<queue, rpc, acked, ackQueue, ackRpc>>
      <3>1. CRAQ!MarkVersionClean(S(k), V(r)) = t
        BY DEF CRAQ!MarkVersionClean, MarkVersionClean, CRAQ!Prune, Prune, CRAQ!Later, Later
      <3> HIDE DEF t
      <3> QED
        BY <1>1, <1>6, <3>1 DEF CRAQ!WriteCommit, CRAQ!UpdateKey, CRAQ!WriteAt,
                                CRAQ!ackVars, S, V
    <2>2. k \in Key /\ S(k) \in KeyState /\ V(r) \in Nat
      BY Writes, KeyStates
    <2>3. /\ t \in KeyState /\ t.next >= S(k).next /\ t.next \in {S(k).next, V(r)}
          /\ SeenSame(S(k), t)
          /\ t.committed >= S(k).committed
          /\ \/ CommittedSame(S(k), t)
             \/ /\ t.committed = V(r)
                /\ \E p \in S(k).pending : p.version = V(r) /\ p.value = t.committedValue
          /\ t.committed >= V(r) \/ \A p \in S(k).pending : p.version # V(r)
          /\ \A p \in t.pending :
                p \in S(k).pending /\ (t.committed # 0 => p.version > t.committed)
          /\ \A p \in S(k).pending : p \in t.pending \/ t.committed >= p.version
      BY <2>2, MarkVersionCleanEffect DEF SeenSame, CommittedSame
    <2> HIDE DEF t
    <2>4. /\ store' \in [Node -> [Key -> KeyState]] /\ T(k) = t
          /\ \A j \in Key : j # k => T(j) = S(j)
      BY <2>1, <2>2, <2>3, Updated
    <2>5. Became(r, "committed", V(r))
      BY <1>2, <2>1, <2>3, <2>4 DEF Became, V
    <2>6. t.seen >= S(k).seen
      BY <2>2, <2>3, KeyStates DEF SeenSame
    <2>7. Committed(r)
      BY <2>1, <2>3, <2>4, <2>5, <2>6 DEF Committed
    <2> QED
      BY <1>2, <1>3, <2>1, <2>4, <2>7 DEF Step, Typed, Alone
  <1>7. ASSUME NEW r \in Req, CRAQ!WriteAck(r)
        PROVE  Step /\ Typed' /\ Alone'
    <2>1. /\ write[r].pc = "committed" /\ write' = [write EXCEPT ![r].pc = "returned"]
          /\ acked' \in {acked, acked \cup {[req |-> r, version |-> V(r)]}}
          /\ UNCHANGED <<store, queue, rpc, ackQueue, ackRpc>>
      BY <1>7 DEF CRAQ!WriteAck, CRAQ!SendClientAck, CRAQ!AckRequest, CRAQ!Message,
                  CRAQ!WriteAt, CRAQ!ackVars, V
    <2>2. KeyOf[r] \in Key /\ T(KeyOf[r]) \in KeyState /\ \A k \in Key : T(k) = S(k)
      BY <2>1, Writes, KeyStates DEF S, T
    <2>3. Answered(r)
      BY <1>2, <2>1, <2>2 DEF Answered, Became, V
    <2> QED
      BY <1>2, <1>3, <2>1, <2>3 DEF Step, Typed, Alone
  <1>8. CASE UNCHANGED <<store, queue, rpc, write, acked, ackQueue, ackRpc>>
    <2>1. Nothing
      BY <1>8 DEF Nothing, S, T, V
    <2> QED
      BY <1>3, <1>8, <2>1 DEF Step, Typed, Alone
  <1>9. /\ \A r \in Req, n \in Node : ~CRAQ!WriteRejected(r, n)
        /\ \A r \in Req : ~CRAQ!WriteForward(r)
    BY <1>1 DEF CRAQ!WriteRejected, CRAQ!WriteForward
  <1>10. \A n \in Node : ~CRAQ!Send(n) /\ ~CRAQ!SendAck(n)
    BY DEF Alone, CRAQ!Send, CRAQ!WorkerSend, CRAQ!SendAck, CRAQ!AckWorker!WorkerSend
  <1>11. \A i \in Reader :
            (\E n \in Node, k \in Key : CRAQ!ReadLocalClean(i, n, k))
               \/ CRAQ!ReadStep(i) \/ CRAQ!QueryFails(i) => UNCHANGED <<store, queue, rpc, write, acked, ackQueue, ackRpc>>
    BY DEF CRAQ!ReadLocalClean, CRAQ!ReadStep, CRAQ!ReadLatest, CRAQ!QueryTail,
           CRAQ!QueryAnswered, CRAQ!ReadMaterialize, CRAQ!QueryFails,
           CRAQ!UnchangedByRead, CRAQ!ackVars
  <1>12. CRAQ!Terminating => UNCHANGED <<store, queue, rpc, write, acked, ackQueue, ackRpc>>
    BY DEF CRAQ!Terminating, CRAQ!vars, CRAQ!ackVars
  <1>13. \/ \E r \in Req, n \in Node : CRAQ!WriteAssign(r, n)
         \/ \E r \in Req : CRAQ!WriteRecord(r) \/ CRAQ!WriteCommit(r) \/ CRAQ!WriteAck(r)
         \/ UNCHANGED <<store, queue, rpc, write, acked, ackQueue, ackRpc>>
    BY <1>9, <1>10, <1>11, <1>12 DEF CRAQ!Next, CRAQ!WriteStep, CRAQ!Handling, Alone
  <1> QED
    BY <1>4, <1>5, <1>6, <1>7, <1>8, <1>13

-----------------------------------------------------------------------------
(* The inductive invariant *)

(* Versions are given out in order, and no two writes of a key share one. *)
Versions ==
    /\ \A r \in Req : V(r) = 0 <=> write[r].pc = "idle"
    /\ \A r \in Req : V(r) <= S(KeyOf[r]).next
    /\ \A k \in Key : S(k).next # 0 => \E r \in Req : KeyOf[r] = k /\ V(r) = S(k).next
    /\ \A q, r \in Req : KeyOf[q] = KeyOf[r] /\ V(q) = V(r) /\ V(r) # 0 => q = r

(* A version and its value, as the server holds them together *)
Holds(k, x, v) == IF v = 0 THEN x = NoReq
                  ELSE x \in Req /\ KeyOf[x] = k /\ V(x) = v
Values ==
    \A k \in Key : /\ Holds(k, S(k).seenValue, S(k).seen)
                   /\ Holds(k, S(k).committedValue, S(k).committed)
                   /\ S(k).committed <= S(k).seen

(* What a handler did stays done, whatever the others do to the key; the   *)
(* version of a CRAQ handler that is about to commit is there to be made   *)
(* clean, unless a newer one is clean already.                             *)
Progress ==
    \A r \in Req :
        LET s == S(KeyOf[r])
        IN  /\ write[r].pc \in {"recorded", "committed", "returned"} => V(r) <= s.seen
            /\ write[r].pc \in {"committed", "returned"} => V(r) <= s.committed
            /\ mode = "CRAQ" /\ write[r].pc = "recorded" =>
                  V(r) <= s.committed \/ \E p \in s.pending : p.version = V(r)

(* A pending version has a handler that will commit it. *)
PendingHandled ==
    \A k \in Key : \A p \in S(k).pending :
        KeyOf[p.value] = k /\ V(p.value) = p.version /\ write[p.value].pc = "recorded"

IInv == Typed /\ Alone /\ Versions /\ Values /\ Progress /\ PendingHandled

LEMMA InitIInv == Init => IInv
  <1> SUFFICES ASSUME Init PROVE IInv
    OBVIOUS
  <1>1. /\ Node = {0} /\ store = [n \in Node |-> [k \in Key |-> FreshKey]]
        /\ queue = [n \in Node |-> <<>>] /\ rpc = {}
        /\ ackQueue = [n \in Node |-> <<>>] /\ ackRpc = {}
    BY SingleAssumption DEF Init, ServerInit, DispatcherInit
  <1>2. \/ /\ mode \in {"CHAIN", "CRAQ"}
           /\ write = [r \in Req |-> [pc |-> "idle", version |-> 0]]
        \/ /\ mode = "CROWN"
           /\ write = [r \in Req |-> [pc |-> "idle", node |-> 0, version |-> 0]]
    BY KeyOfAssumption DEF Init, Chain!Init, Chain!ChainInit, CRAQ!Init, CRAQ!ChainInit,
                           CROWN!Init
  <1>3. \A r \in Req : write[r].pc = "idle" /\ V(r) = 0
    BY <1>2 DEF V
  <1>4. \A k \in Key : S(k) = FreshKey
    BY <1>1 DEF S
  <1>5. Typed
    <2>1. store \in [Node -> [Key -> KeyState]]
      BY <1>1, FreshKeyType
    <2> QED
      BY <1>2, <2>1 DEF Typed
  <1>6. Alone
    BY <1>1 DEF Alone
  <1>7. /\ FreshKey.next = 0 /\ FreshKey.seen = 0 /\ FreshKey.committed = 0
        /\ FreshKey.seenValue = NoReq /\ FreshKey.committedValue = NoReq
        /\ FreshKey.pending = {}
    BY DEF FreshKey
  <1>8. Versions /\ Values /\ Progress /\ PendingHandled
    BY <1>3, <1>4, <1>7, KeyOfAssumption
       DEF Versions, Values, Holds, Progress, PendingHandled
  <1> QED
    BY <1>5, <1>6, <1>8 DEF IInv

(* In every mode, a step is one of the four, or nothing that matters. *)
LEMMA Steps ==
  ASSUME Typed, Alone, [Next]_vars
  PROVE  (Step \/ UNCHANGED vars) /\ Typed' /\ Alone' /\ mode' = mode
  <1>1. CASE UNCHANGED vars
    BY <1>1 DEF vars, Typed, Alone
  <1>2. CASE Next
    BY <1>2, ChainSteps, CraqSteps, CrownSteps DEF Next
  <1> QED
    BY <1>1, <1>2

(* What the steps have in common: a key and its write *)
LEMMA NextTypes ==
  ASSUME Typed, Typed'
  PROVE  /\ \A k \in Key : /\ S(k).next \in Nat /\ S(k).seen \in Nat
                           /\ S(k).committed \in Nat
                           /\ T(k).next \in Nat /\ T(k).seen \in Nat
                           /\ T(k).committed \in Nat
                           /\ S(k).pending \subseteq [version: Nat, value: Req]
                           /\ T(k).pending \subseteq [version: Nat, value: Req]
         /\ \A k \in Key : S(k)' = T(k)
         /\ \A r \in Req : /\ KeyOf[r] \in Key /\ V(r) \in Nat /\ V(r)' \in Nat
                           /\ V(r)' = write'[r].version
  <1>1. \A k \in Key : T(k) \in KeyState
    BY SingleAssumption DEF Typed, T
  <1>2. \A k \in Key : /\ T(k).next \in Nat /\ T(k).seen \in Nat
                       /\ T(k).committed \in Nat
                       /\ T(k).pending \subseteq [version: Nat, value: Req]
    BY <1>1 DEF KeyState
  <1>3. \A r \in Req : KeyOf[r] \in Key /\ V(r)' \in Nat
    BY KeyOfAssumption DEF Typed, V
  <1>4. (\A k \in Key : S(k)' = T(k)) /\ (\A r \in Req : V(r)' = write'[r].version)
    BY DEF S, T, V
  <1> QED
    BY <1>2, <1>3, <1>4, KeyStates, Writes

LEMMA VersionsKept ==
  ASSUME Typed, Typed', Versions, Step
  PROVE  Versions'
  <1> USE NextTypes
  <1>1. ASSUME NEW r \in Req, Assigned(r)
        PROVE  Versions'
    <2> DEFINE n == S(KeyOf[r]).next
    <2>1. /\ write[r].pc = "idle" /\ Became(r, "assigned", n + 1) /\ T(KeyOf[r]).next = n + 1
          /\ n \in Nat
      BY <1>1 DEF Assigned
    <2>2. /\ V(r)' = n + 1 /\ write'[r].pc = "assigned"
          /\ \A q \in Req : q # r => V(q)' = V(q) /\ write'[q].pc = write[q].pc
          /\ \A k \in Key : k # KeyOf[r] => T(k) = S(k)
      BY <2>1 DEF Became
    <2>3. \A q \in Req : V(q)' = 0 <=> write'[q].pc = "idle"
      BY <2>1, <2>2 DEF Versions
    <2>4. \A q \in Req : q # r /\ KeyOf[q] = KeyOf[r] => V(q)' <= n
      BY <2>2 DEF Versions
    <2> HIDE DEF n
    <2>5. \A q \in Req : V(q)' <= T(KeyOf[q]).next
      BY <2>1, <2>2, <2>4 DEF Versions
    <2>6. ASSUME NEW k \in Key, T(k).next # 0
          PROVE  \E q \in Req : KeyOf[q] = k /\ V(q)' = T(k).next
      <3>1. CASE k = KeyOf[r]
        BY <2>1, <2>2, <3>1
      <3>2. CASE k # KeyOf[r]
        <4>1. PICK q \in Req : KeyOf[q] = k /\ V(q) = S(k).next
          BY <2>2, <2>6, <3>2 DEF Versions
        <4> QED
          BY <2>2, <3>2, <4>1
      <3> QED
        BY <3>1, <3>2
    <2>7. \A p, q \in Req : KeyOf[p] = KeyOf[q] /\ V(p)' = V(q)' /\ V(q)' # 0 => p = q
      BY <2>1, <2>2, <2>4 DEF Versions
    <2> QED
      BY <2>3, <2>5, <2>6, <2>7 DEF Versions
  <1>2. ASSUME \A q \in Req : V(q)' = V(q) /\ (write'[q].pc = "idle" <=> write[q].pc = "idle"),
               \A k \in Key : T(k).next = S(k).next
        PROVE  Versions'
    BY <1>2 DEF Versions
  <1>3. ASSUME NEW r \in Req, Recorded(r) \/ Committed(r)
        PROVE  Versions'
    <2>1. /\ write[r].pc # "idle" /\ write'[r].pc # "idle" /\ V(r)' = V(r)
          /\ \A q \in Req : q # r => V(q)' = V(q) /\ write'[q].pc = write[q].pc
          /\ \A k \in Key : k # KeyOf[r] => T(k) = S(k)
          /\ T(KeyOf[r]).next >= S(KeyOf[r]).next
          /\ T(KeyOf[r]).next \in {S(KeyOf[r]).next, V(r)}
      BY <1>3 DEF Recorded, Committed, Became
    <2>2. T(KeyOf[r]).next = S(KeyOf[r]).next
      BY <2>1 DEF Versions
    <2> QED
      BY <1>2, <2>1, <2>2
  <1>4. ASSUME NEW r \in Req, Answered(r)
        PROVE  Versions'
    BY <1>2, <1>4 DEF Answered, Became
  <1>5. CASE Nothing
    BY <1>2, <1>5 DEF Nothing
  <1> QED
    BY <1>1, <1>3, <1>4, <1>5 DEF Step

HoldsNext(k, x, v) == IF v = 0 THEN x = NoReq
                      ELSE x \in Req /\ KeyOf[x] = k /\ write'[x].version = v

LEMMA ValuesNext ==
  ASSUME \A k \in Key : /\ HoldsNext(k, T(k).seenValue, T(k).seen)
                        /\ HoldsNext(k, T(k).committedValue, T(k).committed)
                        /\ T(k).committed <= T(k).seen
  PROVE  Values'
  BY DEF Values, Holds, HoldsNext, S, T, V

LEMMA ValuesKept ==
  ASSUME Typed, Typed', Versions, Values, Progress, PendingHandled, Step
  PROVE  Values'
  <1> USE NextTypes
  <1>1. \A q \in Req : V(q) # 0 => V(q)' = V(q)
    BY DEF Step, Assigned, Recorded, Committed, Answered, Nothing, Became, Versions
  <1>2. \A k \in Key : \A x, v : Holds(k, x, v) => HoldsNext(k, x, v)
    BY <1>1 DEF Holds, HoldsNext
  <1>3. \A k \in Key : (T(k) = S(k) \/ (SeenSame(S(k), T(k)) /\ CommittedSame(S(k), T(k))))
                       => /\ HoldsNext(k, T(k).seenValue, T(k).seen)
                          /\ HoldsNext(k, T(k).committedValue, T(k).committed)
                          /\ T(k).committed <= T(k).seen
    BY <1>2 DEF Values, SeenSame, CommittedSame
  <1>4. ASSUME NEW k \in Key
        PROVE  /\ HoldsNext(k, T(k).seenValue, T(k).seen)
               /\ HoldsNext(k, T(k).committedValue, T(k).committed)
               /\ T(k).committed <= T(k).seen
    <2>1. CASE T(k) = S(k)
      BY <1>3, <2>1
    <2>2. ASSUME NEW r \in Req, k = KeyOf[r], Assigned(r)
          PROVE  SeenSame(S(k), T(k)) /\ CommittedSame(S(k), T(k))
      BY <2>2 DEF Assigned
    <2>3. ASSUME NEW r \in Req, k = KeyOf[r], Recorded(r)
          PROVE  /\ HoldsNext(k, T(k).seenValue, T(k).seen)
                 /\ HoldsNext(k, T(k).committedValue, T(k).committed)
                 /\ T(k).committed <= T(k).seen
      <3>1. /\ SeenSame(S(k), T(k)) \/ (T(k).seen = V(r) /\ T(k).seenValue = r)
            /\ CommittedSame(S(k), T(k)) /\ T(k).seen >= S(k).seen
            /\ V(r) # 0
        BY <2>3 DEF Recorded, Versions
      <3>2. Holds(k, r, V(r))
        BY <2>3, <3>1 DEF Holds
      <3> QED
        BY <1>2, <3>1, <3>2 DEF Values, SeenSame, CommittedSame
    <2>4. ASSUME NEW r \in Req, k = KeyOf[r], Committed(r)
          PROVE  /\ HoldsNext(k, T(k).seenValue, T(k).seen)
                 /\ HoldsNext(k, T(k).committedValue, T(k).committed)
                 /\ T(k).committed <= T(k).seen
      <3>1. /\ SeenSame(S(k), T(k)) \/ (T(k).seen = V(r) /\ T(k).seenValue = r)
            /\ T(k).seen >= S(k).seen /\ V(r) # 0 /\ V(r) <= S(k).seen
            /\ \/ CommittedSame(S(k), T(k))
               \/ /\ T(k).committed = V(r)
                  /\ \/ T(k).committedValue = r
                     \/ \E p \in S(k).pending : p.version = V(r) /\ p.value = T(k).committedValue
        BY <2>4 DEF Committed, Versions, Progress
      <3>2. Holds(k, r, V(r))
        BY <2>4, <3>1 DEF Holds
      <3>3. \A p \in S(k).pending : p.version = V(r) => p.value = r
        BY <2>4, <3>1 DEF PendingHandled, Versions
      <3>4. CommittedSame(S(k), T(k)) \/ (T(k).committed = V(r) /\ T(k).committedValue = r)
        BY <3>1, <3>3
      <3> QED
        BY <1>2, <3>1, <3>2, <3>4 DEF Values, SeenSame, CommittedSame
    <2>5. \/ T(k) = S(k)
          \/ \E r \in Req : k = KeyOf[r] /\ (Assigned(r) \/ Recorded(r) \/ Committed(r))
      BY DEF Step, Assigned, Recorded, Committed, Answered, Nothing, Became
    <2> QED
      BY <1>3, <2>1, <2>2, <2>3, <2>4, <2>5
  <1> QED
    BY <1>4, ValuesNext

LEMMA ProgressKept ==
  ASSUME Typed, Typed', Versions, Values, Progress, Step, mode' = mode
  PROVE  Progress'
  <1> USE NextTypes
  <1> DEFINE Fine(r) ==
        LET t == T(KeyOf[r])
        IN  /\ write'[r].pc \in {"recorded", "committed", "returned"} => write'[r].version <= t.seen
            /\ write'[r].pc \in {"committed", "returned"} => write'[r].version <= t.committed
            /\ mode = "CRAQ" /\ write'[r].pc = "recorded" =>
                  \/ write'[r].version <= t.committed
                  \/ \E p \in t.pending : p.version = write'[r].version
  <1>1. ASSUME NEW r \in Req, write'[r].pc = write[r].pc, write'[r].version = V(r),
               T(KeyOf[r]) = S(KeyOf[r])
        PROVE  Fine(r)
    BY <1>1 DEF Progress
  <1>2. ASSUME NEW q \in Req, Assigned(q), NEW r \in Req
        PROVE  Fine(r)
    <2> DEFINE s == S(KeyOf[r])
               t == T(KeyOf[r])
    <2>1. t.seen = s.seen /\ t.committed = s.committed /\ t.pending = s.pending
      BY <1>2 DEF Assigned, Became, SeenSame, CommittedSame
    <2>2. \/ r = q /\ write'[r].pc = "assigned"
          \/ write'[r].pc = write[r].pc /\ write'[r].version = V(r)
      BY <1>2 DEF Assigned, Became
    <2> QED
      BY <2>1, <2>2 DEF Progress
  <1>3. ASSUME NEW q \in Req, Recorded(q), NEW r \in Req
        PROVE  Fine(r)
    <2> DEFINE s == S(KeyOf[r])
               t == T(KeyOf[r])
    <2>1. /\ t.seen >= s.seen /\ t.committed = s.committed
          /\ mode = "CRAQ" => \A p \in s.pending : \E o \in t.pending : o.version = p.version
      BY <1>3 DEF Recorded, Became, CommittedSame
    <2>2. CASE r = q
      <3>1. /\ write'[r].pc = "recorded" /\ write'[r].version = V(r) /\ t.seen >= V(r)
            /\ mode = "CRAQ" => \E p \in t.pending : p.version = V(r)
        BY <1>3, <2>2 DEF Recorded, Became
      <3> QED
        BY <3>1
    <2>3. CASE r # q
      <3>1. write'[r].pc = write[r].pc /\ write'[r].version = V(r)
        BY <1>3, <2>3 DEF Recorded, Became
      <3>2. V(r) \in Nat /\ s.seen \in Nat /\ t.seen \in Nat
        OBVIOUS
      <3> QED
        BY <2>1, <3>1, <3>2 DEF Progress
    <2> QED
      BY <2>2, <2>3
  <1>4. ASSUME NEW q \in Req, Committed(q), NEW r \in Req
        PROVE  Fine(r)
    <2> DEFINE s == S(KeyOf[r])
               t == T(KeyOf[r])
    <2>1. CASE r = q
      <3>1. /\ write[r].pc = "recorded" /\ write'[r].pc = "committed"
            /\ write'[r].version = V(r) /\ t.seen >= s.seen /\ t.committed >= s.committed
            /\ t.committed >= V(r) \/ (mode = "CRAQ" /\ \A p \in s.pending : p.version # V(r))
        BY <1>4, <2>1 DEF Committed, Became
      <3>2. V(r) \in Nat /\ s.seen \in Nat /\ t.seen \in Nat /\ s.committed \in Nat
            /\ t.committed \in Nat
        OBVIOUS
      <3>3. V(r) <= s.seen /\ (mode = "CRAQ" => \/ V(r) <= s.committed
                                               \/ \E p \in s.pending : p.version = V(r))
        BY <3>1 DEF Progress
      <3> QED
        BY <3>1, <3>2, <3>3
    <2>2. CASE r # q
      <3>1. write'[r].pc = write[r].pc /\ write'[r].version = V(r)
        BY <1>4, <2>2 DEF Committed, Became
      <3>2. CASE KeyOf[r] # KeyOf[q]
        BY <1>1, <1>4, <3>1, <3>2 DEF Committed, Became
      <3>3. CASE KeyOf[r] = KeyOf[q]
        <4>1. /\ t.seen >= s.seen /\ t.committed >= s.committed
              /\ mode = "CRAQ" => \A p \in s.pending : p \in t.pending \/ t.committed >= p.version
          BY <1>4, <3>3 DEF Committed
        <4>2. V(r) \in Nat /\ s.seen \in Nat /\ t.seen \in Nat /\ s.committed \in Nat
              /\ t.committed \in Nat
          OBVIOUS
        <4>3. /\ write[r].pc \in {"recorded", "committed", "returned"} => V(r) <= s.seen
              /\ write[r].pc \in {"committed", "returned"} => V(r) <= s.committed
              /\ mode = "CRAQ" /\ write[r].pc = "recorded" =>
                    V(r) <= s.committed \/ \E p \in s.pending : p.version = V(r)
          BY DEF Progress
        <4> QED
          BY <3>1, <4>1, <4>2, <4>3
      <3> QED
        BY <3>2, <3>3
    <2> QED
      BY <2>1, <2>2
  <1>5. ASSUME NEW q \in Req, Answered(q), NEW r \in Req
        PROVE  Fine(r)
    <2>1. T(KeyOf[r]) = S(KeyOf[r])
      BY <1>5 DEF Answered, Became
    <2>2. CASE r = q
      <3>1. write[r].pc = "committed" /\ write'[r].pc = "returned" /\ write'[r].version = V(r)
        BY <1>5, <2>2 DEF Answered, Became
      <3> QED
        BY <2>1, <3>1 DEF Progress
    <2>3. CASE r # q
      BY <1>1, <1>5, <2>1, <2>3 DEF Answered, Became
    <2> QED
      BY <2>2, <2>3
  <1>6. ASSUME Nothing, NEW r \in Req
        PROVE  Fine(r)
    BY <1>1, <1>6 DEF Nothing
  <1>7. \A r \in Req : Fine(r)
    BY <1>2, <1>3, <1>4, <1>5, <1>6 DEF Step
  <1> QED
    BY <1>7 DEF Progress, S, T, V

LEMMA PendingKept ==
  ASSUME Typed, Typed', Versions, Values, Progress, PendingHandled, Step
  PROVE  PendingHandled'
  <1> USE NextTypes
  <1> DEFINE Handled(k, p) ==
        KeyOf[p.value] = k /\ write'[p.value].version = p.version
           /\ write'[p.value].pc = "recorded"
  <1>1. ASSUME NEW k \in Key, NEW p \in T(k).pending, p \in S(k).pending,
               write'[p.value].pc = write[p.value].pc /\ write'[p.value].version = V(p.value)
        PROVE  Handled(k, p)
    BY <1>1 DEF PendingHandled
  <1>2. \A k \in Key : \A p \in S(k).pending :
           p.value \in Req /\ KeyOf[p.value] = k /\ V(p.value) = p.version
              /\ write[p.value].pc = "recorded"
    BY DEF PendingHandled
  <1>3. ASSUME NEW r \in Req, Assigned(r) \/ Answered(r), NEW k \in Key, NEW p \in T(k).pending
        PROVE  Handled(k, p)
    <2>1. T(k).pending = S(k).pending
      BY <1>3 DEF Assigned, Answered, Became
    <2>2. p.value # r
      BY <1>2, <1>3, <2>1 DEF Assigned, Answered
    <2> QED
      BY <1>1, <1>2, <1>3, <2>1, <2>2 DEF Assigned, Answered, Became
  <1>4. ASSUME NEW r \in Req, Recorded(r), NEW k \in Key, NEW p \in T(k).pending
        PROVE  Handled(k, p)
    <2>1. CASE p \in S(k).pending
      <3>1. p.value # r
        BY <1>2, <1>4, <2>1 DEF Recorded
      <3> QED
        BY <1>1, <1>2, <1>4, <2>1, <3>1 DEF Recorded, Became
    <2>2. CASE p \notin S(k).pending
      <3>1. k = KeyOf[r] /\ p.value = r /\ p.version = V(r)
        BY <1>4, <2>2 DEF Recorded, Became
      <3> QED
        BY <1>4, <3>1 DEF Recorded, Became
    <2> QED
      BY <2>1, <2>2
  <1>5. ASSUME NEW r \in Req, Committed(r), NEW k \in Key, NEW p \in T(k).pending
        PROVE  Handled(k, p)
    <2>1. p \in S(k).pending
      BY <1>5 DEF Committed, Became
    <2>2. p.value # r
      <3> SUFFICES ASSUME p.value = r PROVE FALSE
        OBVIOUS
      <3>1. k = KeyOf[r] /\ p.version = V(r) /\ V(r) # 0 /\ V(r) \in Nat
            /\ T(k).committed \in Nat /\ S(k).committed \in Nat
        BY <1>2, <1>5, <2>1 DEF Versions, Committed
      <3>2. T(k).committed >= V(r)
        BY <1>5, <2>1, <3>1 DEF Committed
      <3>3. T(k).committed # 0 => p.version > T(k).committed
        BY <1>5, <3>1 DEF Committed
      <3> QED
        BY <3>1, <3>2, <3>3
    <2> QED
      BY <1>1, <1>2, <1>5, <2>1, <2>2 DEF Committed, Became
  <1>6. ASSUME Nothing, NEW k \in Key, NEW p \in T(k).pending
        PROVE  Handled(k, p)
    BY <1>1, <1>2, <1>6 DEF Nothing
  <1>7. \A k \in Key : \A p \in T(k).pending : Handled(k, p)
    BY <1>3, <1>4, <1>5, <1>6 DEF Step
  <1> QED
    BY <1>7 DEF PendingHandled, S, T, V

LEMMA NextIInv == IInv /\ [Next]_vars => IInv'
  <1> SUFFICES ASSUME IInv, [Next]_vars PROVE IInv'
    OBVIOUS
  <1>1. (Step \/ UNCHANGED vars) /\ Typed' /\ Alone' /\ mode' = mode
    BY Steps DEF IInv
  <1>2. CASE Step
    BY <1>1, <1>2, VersionsKept, ValuesKept, ProgressKept, PendingKept DEF IInv
  <1>3. CASE UNCHANGED vars
    BY <1>1, <1>3 DEF IInv, vars, Versions, Values, Holds, Progress, PendingHandled, S, V
  <1> QED
    BY <1>1, <1>2, <1>3

(* The versions, values and handlers of every mode stay in step.          *)
THEOREM Invariance == Spec => []IInv
  BY InitIInv, NextIInv, PTL DEF Spec

(* When every write is answered the last version of every key, and the     *)
(* value that was written with it, is committed, and nothing is pending:   *)
(* the handler of the last version is done, so nothing newer was seen and  *)
(* nothing older is committed.                                             *)
THEOREM AnsweredTheorem == Spec => []AnsweredIsCommitted
  <1>1. ASSUME IInv PROVE AnsweredIsCommitted
    <2> SUFFICES ASSUME \A r \in Req : write[r].pc = "returned", NEW k \in Key
                 PROVE  /\ S(k).committed = S(k).next
                        /\ S(k).committedValue = S(k).seenValue
                        /\ S(k).pending = {}
      BY DEF AnsweredIsCommitted, S
    <2>1. Typed /\ Versions /\ Values /\ Progress /\ PendingHandled
      BY <1>1 DEF IInv
    <2>2. S(k).next \in Nat /\ S(k).seen \in Nat /\ S(k).committed \in Nat
      BY <2>1, KeyStates
    <2>3. Holds(k, S(k).seenValue, S(k).seen) /\ S(k).committed <= S(k).seen
             /\ Holds(k, S(k).committedValue, S(k).committed)
      BY <2>1 DEF Values
    <2>4. S(k).seen <= S(k).next
      BY <2>1, <2>2, <2>3 DEF Holds, Versions
    <2>5. S(k).next # 0 => S(k).next <= S(k).committed
      BY <2>1 DEF Versions, Progress
    <2>6. S(k).committed = S(k).next /\ S(k).seen = S(k).next
      BY <2>2, <2>3, <2>4, <2>5
    <2>7. S(k).committedValue = S(k).seenValue
      BY <2>1, <2>3, <2>6 DEF Holds, Versions
    <2>8. S(k).pending = {}
      <3>1. \A p \in S(k).pending : p.value \in Req /\ write[p.value].pc = "recorded"
        BY <2>1, KeyStates DEF PendingHandled
      <3> QED
        BY <3>1
    <2> QED
      BY <2>6, <2>7, <2>8
  <1> QED
    BY <1>1, Invariance, PTL

-----------------------------------------------------------------------------
(* The refinement *)

LEMMA InitRefines == Init => Abs!Init
  <1> SUFFICES ASSUME Init PROVE Abs!Init
    OBVIOUS
  <1>1. IInv /\ acked = {}
    BY InitIInv DEF Init, ServerInit
  <1>2. \A k \in Key : store[0][k].committed = 0 /\ store[0][k].committedValue = NoReq
    <2>1. \A k \in Key : store[0][k] = FreshKey
      BY SingleAssumption DEF Init, ServerInit
    <2>2. FreshKey.committed = 0 /\ FreshKey.committedValue = NoReq
      BY DEF FreshKey
    <2> QED
      BY <2>1, <2>2
  <1>3. \A r \in Req : write[r].version = 0
    BY KeyOfAssumption DEF Init, Chain!Init, Chain!ChainInit, CRAQ!Init, CRAQ!ChainInit,
                           CROWN!Init
  <1> QED
    BY <1>1, <1>2, <1>3 DEF Abs!Init

(* The register's version and committed records, from the server's *)
LEMMA AbstractVersions ==
  ASSUME \A r \in Req : write'[r].version = V(r)
  PROVE  UNCHANGED [r \in Req |-> write[r].version]
  BY DEF V

LEMMA AbstractCommitted ==
  ASSUME \A k \in Key : CommittedSame(S(k), T(k))
  PROVE  UNCHANGED [k \in Key |-> [version |-> store[0][k].committed,
                                   value   |-> store[0][k].committedValue]]
  BY DEF CommittedSame, S, T

LEMMA AssignedRefines ==
  ASSUME IInv, IInv', NEW r \in Req, Assigned(r)
  PROVE  Abs!Accept(r)
  <1> DEFINE n == S(KeyOf[r]).next
  <1>1. Typed /\ Typed' /\ Versions
    BY DEF IInv
  <1>2. /\ n \in Nat /\ KeyOf[r] \in Key
        /\ \A q \in Req : V(q) \in Nat
    BY <1>1, KeyStates, Writes
  <1>3. /\ write[r].pc = "idle" /\ Became(r, "assigned", n + 1) /\ UNCHANGED acked
        /\ CommittedSame(S(KeyOf[r]), T(KeyOf[r]))
    BY DEF Assigned
  <1>4. /\ write'[r].version = n + 1
        /\ \A q \in Req : q # r => write'[q].version = V(q)
        /\ \A k \in Key : CommittedSame(S(k), T(k))
    BY <1>3 DEF Became, CommittedSame
  <1>5. V(r) = 0 /\ \A q \in Req : KeyOf[q] = KeyOf[r] => V(q) <= n
    BY <1>1, <1>3 DEF Versions
  <1>6. n # 0 => \E q \in Req : KeyOf[q] = KeyOf[r] /\ V(q) = n
    BY <1>1, <1>2 DEF Versions
  <1> HIDE DEF n
  <1>7. [q \in Req |-> write[q].version]'
           = [[q \in Req |-> write[q].version] EXCEPT ![r] = n + 1]
    BY <1>4 DEF V
  <1>8. UNCHANGED [k \in Key |-> [version |-> store[0][k].committed,
                                  value   |-> store[0][k].committedValue]]
    BY <1>4, AbstractCommitted
  <1>9. /\ \A q \in Req : KeyOf[q] = KeyOf[r] => write[q].version < n + 1
        /\ n + 1 = 1 \/ \E q \in Req : /\ KeyOf[q] = KeyOf[r] /\ write[q].version # 0
                                       /\ write[q].version + 1 = n + 1
        /\ write[r].version = 0 /\ n + 1 # 0
    BY <1>2, <1>5, <1>6 DEF V
  <1> QED
    BY <1>3, <1>4, <1>7, <1>8, <1>9 DEF Abs!Accept

(* A commit is invisible, or it commits a newer write: a version that is   *)
(* committed again is the same write.                                      *)
LEMMA CommittedRefines ==
  ASSUME IInv, IInv', NEW r \in Req, Committed(r)
  PROVE  UNCHANGED Abs!vars \/ Abs!Commit(r)
  <1> DEFINE k == KeyOf[r]
  <1>1. Typed /\ Typed' /\ Versions /\ Values /\ PendingHandled
    BY DEF IInv
  <1>2. /\ k \in Key /\ V(r) \in Nat /\ S(k).committed \in Nat /\ T(k).committed \in Nat
        /\ S(k).pending \subseteq [version: Nat, value: Req]
    BY <1>1, NextTypes
  <1>3. /\ write[r].pc = "recorded" /\ Became(r, "committed", V(r))
        /\ T(k).committed >= S(k).committed /\ UNCHANGED acked
        /\ \/ CommittedSame(S(k), T(k))
           \/ /\ T(k).committed = V(r)
              /\ \/ T(k).committedValue = r
                 \/ \E p \in S(k).pending : p.version = V(r) /\ p.value = T(k).committedValue
    BY DEF Committed
  <1>4. /\ \A q \in Req : write'[q].version = V(q)
        /\ \A j \in Key : j # k => T(j) = S(j)
    BY <1>3 DEF Became
  <1>5. UNCHANGED [q \in Req |-> write[q].version]
    BY <1>4, AbstractVersions
  <1>6. V(r) # 0
    BY <1>1, <1>3 DEF Versions
  <1>7. \A q \in Req : KeyOf[q] = k /\ V(q) = V(r) => q = r
    BY <1>1, <1>6 DEF Versions
  <1>8. CASE CommittedSame(S(k), T(k))
    <2>1. \A j \in Key : CommittedSame(S(j), T(j))
      BY <1>4, <1>8 DEF CommittedSame
    <2> QED
      BY <1>3, <1>5, <2>1, AbstractCommitted DEF Abs!vars
  <1>9. CASE ~CommittedSame(S(k), T(k))
    <2>1. T(k).committed = V(r) /\ T(k).committedValue = r
      <3>1. \A p \in S(k).pending : p.version = V(r) => p.value = r
        BY <1>1, <1>2, <1>7 DEF PendingHandled
      <3> QED
        BY <1>3, <1>9, <3>1
    <2>2. S(k).committed # V(r)
      <3> SUFFICES ASSUME S(k).committed = V(r) PROVE FALSE
        OBVIOUS
      <3>1. S(k).committedValue = r
        BY <1>1, <1>2, <1>6, <1>7 DEF Values, Holds
      <3> QED
        BY <1>9, <2>1, <3>1 DEF CommittedSame
    <2>3. V(r) > S(k).committed
      BY <1>2, <1>3, <2>1, <2>2
    <2>4. [j \in Key |-> [version |-> store[0][j].committed,
                          value   |-> store[0][j].committedValue]]'
            = [[j \in Key |-> [version |-> store[0][j].committed,
                               value   |-> store[0][j].committedValue]]
                 EXCEPT ![k] = [version |-> V(r), value |-> r]]
      BY <1>2, <1>4, <2>1 DEF S, T
    <2> QED
      BY <1>2, <1>3, <1>5, <2>3, <2>4 DEF Abs!Commit, S, V
  <1> QED
    BY <1>8, <1>9

LEMMA StepRefines == IInv /\ IInv' /\ [Next]_vars => [Abs!Next]_(Abs!vars)
  <1> SUFFICES ASSUME IInv, IInv', [Next]_vars PROVE [Abs!Next]_(Abs!vars)
    OBVIOUS
  <1>1. Step \/ UNCHANGED vars
    BY Steps DEF IInv
  <1>2. ASSUME NEW r \in Req, Assigned(r) PROVE Abs!Accept(r)
    BY <1>2, AssignedRefines
  <1>3. ASSUME NEW r \in Req, Committed(r) PROVE UNCHANGED Abs!vars \/ Abs!Commit(r)
    BY <1>3, CommittedRefines
  <1>4. ASSUME \A r \in Req : write'[r].version = V(r),
               \A k \in Key : CommittedSame(S(k), T(k))
        PROVE  /\ UNCHANGED [r \in Req |-> write[r].version]
               /\ UNCHANGED [k \in Key |-> [version |-> store[0][k].committed,
                                            value   |-> store[0][k].committedValue]]
    BY <1>4, AbstractVersions, AbstractCommitted
  <1>5. ASSUME NEW r \in Req, Recorded(r) PROVE UNCHANGED Abs!vars
    <2>1. /\ \A q \in Req : write'[q].version = V(q)
          /\ \A k \in Key : CommittedSame(S(k), T(k))
          /\ UNCHANGED acked
      BY <1>5 DEF Recorded, Became, CommittedSame
    <2> QED
      BY <1>4, <2>1 DEF Abs!vars
  <1>6. ASSUME NEW r \in Req, Answered(r)
        PROVE  UNCHANGED Abs!vars \/ Abs!Acknowledge(r)
    <2>1. /\ \A q \in Req : write'[q].version = V(q)
          /\ \A k \in Key : CommittedSame(S(k), T(k))
          /\ acked' \in {acked, acked \cup {[req |-> r, version |-> V(r)]}}
      BY <1>6 DEF Answered, Became, CommittedSame
    <2>2. V(r) # 0 /\ V(r) <= S(KeyOf[r]).committed /\ KeyOf[r] \in Key
      BY <1>6, KeyOfAssumption DEF IInv, Versions, Progress, Answered
    <2> QED
      BY <1>4, <2>1, <2>2 DEF Abs!vars, Abs!Acknowledge, S, V
  <1>7. ASSUME Nothing \/ UNCHANGED vars PROVE UNCHANGED Abs!vars
    <2>1. /\ \A q \in Req : write'[q].version = V(q)
          /\ \A k \in Key : CommittedSame(S(k), T(k))
          /\ UNCHANGED acked
      BY <1>7 DEF Nothing, vars, CommittedSame, S, T, V
    <2> QED
      BY <1>4, <2>1 DEF Abs!vars
  <1> QED
    BY <1>1, <1>2, <1>3, <1>5, <1>6, <1>7 DEF Step, Abs!Next

(* In every mode the one server is the register of its committed values,   *)
(* though its handlers assign, record, commit and answer in any order.     *)
THEOREM RegisterTheorem == Spec => Register
  <1>1. Spec => Abs!Spec
    BY InitRefines, StepRefines, Invariance, PTL DEF Spec, Abs!Spec
  <1> QED
    BY <1>1 DEF Register
=============================================================================
